---- MODULE Spec2Model ----
(***************************************************************************)
(* LexiGraph: the DOT normalizer (clean_dot_code and its colour passes),   *)
(* the structural validator, compile_dot_to_png, the pipeline and the REST *)
(* wrapper process_lecture.                                                *)
(*                                                                         *)
(* A Python str is modelled as a sequence of one-character strings, so     *)
(* every regular expression of the source is translated character by      *)
(* character.  The backtick cannot be written in a TLA+ string; the        *)
(* character is the value Backtick.  Names of the source are kept.         *)
(***************************************************************************)
EXTENDS Integers, Sequences, FiniteSets, TLC

(***************************************************************************)
(* Characters and the str methods the source uses.                         *)
(***************************************************************************)
UpperChars == <<"A","B","C","D","E","F","G","H","I","J","K","L","M",
                "N","O","P","Q","R","S","T","U","V","W","X","Y","Z">>

LowerChars == <<"a","b","c","d","e","f","g","h","i","j","k","l","m",
                "n","o","p","q","r","s","t","u","v","w","x","y","z">>

DigitChars == <<"0","1","2","3","4","5","6","7","8","9">>

\* the backtick character
Backtick == "BACKTICK"

Range(f) == {f[i] : i \in DOMAIN f}

\* str.isspace() for one character: the class \s of re
IsSpace(c) == c \in {" ", "\n", "\t", "\r"}

\* the class \w of re
IsWordChar(c) == c \in Range(UpperChars) \cup Range(LowerChars) \cup Range(DigitChars) \cup {"_"}

\* str.lower() for one character
LowerChar(c) ==
  IF c \in Range(UpperChars)
  THEN LowerChars[CHOOSE i \in DOMAIN UpperChars : UpperChars[i] = c]
  ELSE c

\* str.lower()
Lower(s) == [i \in 1..Len(s) |-> LowerChar(s[i])]

\* str.upper() for one character
UpperChar(c) ==
  IF c \in Range(LowerChars)
  THEN UpperChars[CHOOSE i \in DOMAIN LowerChars : LowerChars[i] = c]
  ELSE c

\* str.upper()
Upper(s) == [i \in 1..Len(s) |-> UpperChar(s[i])]

\* least element of a non-empty set of integers
MinOf(S) == CHOOSE x \in S : \A y \in S : x <= y

\* greatest element of a non-empty set of integers
MaxOf(S) == CHOOSE x \in S : \A y \in S : y <= x

\* the element of a one-element set; The({e(x) : x \in {v}}) is e with x
\* bound to the value v, computed once
The(S) == CHOOSE x \in S : TRUE

\* s[i-1:] of Python, positions counted from 1
From(s, i) == SubSeq(s, i, Len(s))

\* str.strip()
Strip(s) ==
  LET keep == {i \in 1..Len(s) : ~IsSpace(s[i])}
  IN  IF keep = {} THEN <<>> ELSE SubSeq(s, MinOf(keep), MaxOf(keep))

\* the literal lit matches s at position i (case-sensitive)
LitAt(s, i, lit) ==
  /\ i >= 1
  /\ i + Len(lit) - 1 <= Len(s)
  /\ \A k \in 1..Len(lit) : s[i + k - 1] = lit[k]

\* the literal lit matches s at position i under re.IGNORECASE
LitAtCI(s, i, lit) ==
  /\ i >= 1
  /\ i + Len(lit) - 1 <= Len(s)
  /\ \A k \in 1..Len(lit) : LowerChar(s[i + k - 1]) = LowerChar(lit[k])

\* the test (sub in s) of Python
Contains(s, sub) == \E i \in 1..(Len(s) + 1) : LitAt(s, i, sub)

\* str.startswith
StartsWith(s, pre) == LitAt(s, 1, pre)

\* str.endswith
EndsWith(s, suf) == Len(suf) <= Len(s) /\ LitAt(s, Len(s) - Len(suf) + 1, suf)

\* str.count of one character
Count(s, c) == Cardinality({i \in 1..Len(s) : s[i] = c})

\* position after the greedy \s* that starts at i
RECURSIVE SkipSpace(_, _)
SkipSpace(s, i) == IF i <= Len(s) /\ IsSpace(s[i]) THEN SkipSpace(s, i + 1) ELSE i

\* position after the greedy \w* that starts at i
RECURSIVE SkipWord(_, _)
SkipWord(s, i) == IF i <= Len(s) /\ IsWordChar(s[i]) THEN SkipWord(s, i + 1) ELSE i

\* $ of re without MULTILINE: the end, or just before a final newline
AtEnd(s, i) == i = Len(s) + 1 \/ (i = Len(s) /\ s[i] = "\n")

\* \b of re at the gap before position i
WordBoundary(s, i) ==
  LET before == i - 1 >= 1 /\ i - 1 <= Len(s) /\ IsWordChar(s[i - 1])
      after  == i >= 1 /\ i <= Len(s) /\ IsWordChar(s[i])
  IN  before # after

(***************************************************************************)
(* clean_dot_code, Pattern 1: the first fenced code block.                 *)
(***************************************************************************)
Fence == <<Backtick, Backtick, Backtick>>

LangDot == <<"d","o","t">>

LangGraphviz == <<"g","r","a","p","h","v","i","z">>

\* position after the opening fence, (?:dot|graphviz|DOT)?\s*\n? , for a fence at p
FenceBodyStart(s, p) ==
  LET afterTag == IF LitAtCI(s, p + 3, LangDot) THEN p + 3 + Len(LangDot)
                  ELSE IF LitAtCI(s, p + 3, LangGraphviz) THEN p + 3 + Len(LangGraphviz)
                  ELSE p + 3
  IN  SkipSpace(s, afterTag)

\* \n? and the closing fence match at e; the lazy (.*?) stops at the least such e
FenceCloseAt(s, e) ==
  \/ LitAt(s, e, Fence)
  \/ (e <= Len(s) /\ s[e] = "\n" /\ LitAt(s, e + 1, Fence))

\* re.search(markdown_pattern, cleaned, re.DOTALL | re.IGNORECASE);
\* cleaned = match.group(1).strip() when it matches
strip_markdown_block(s) ==
  LET opens == {p \in 1..Len(s) : LitAt(s, p, Fence)}
  IN  IF opens = {} THEN s
      ELSE LET p      == MinOf(opens)
               g      == FenceBodyStart(s, p)
               closes == {e \in g..Len(s) : FenceCloseAt(s, e)}
           IN  IF closes = {} THEN s
               ELSE Strip(SubSeq(s, g, MinOf(closes) - 1))

(***************************************************************************)
(* Pattern 2: re.sub of a leading and of a trailing run of backticks, then *)
(* strip().                                                                *)
(***************************************************************************)
strip_backticks(s) ==
  LET lead  == MinOf({j \in 1..(Len(s) + 1) : j = Len(s) + 1 \/ s[j] # Backtick})
      rest  == From(s, lead)
      tails == {i \in 1..Len(rest) :
                  \E e \in i..Len(rest) :
                     /\ AtEnd(rest, e + 1)
                     /\ \A k \in i..e : rest[k] = Backtick}
      cut   == IF tails = {} THEN rest
               ELSE LET i == MinOf(tails)
                        e == MaxOf({x \in i..Len(rest) :
                                      AtEnd(rest, x + 1) /\ \A k \in i..x : rest[k] = Backtick})
                    IN  SubSeq(rest, 1, i - 1) \o From(rest, e + 1)
  IN  Strip(cut)

(***************************************************************************)
(* Pattern 3: the prefixes, each  ^LITERAL:?\s*  under re.IGNORECASE.      *)
(***************************************************************************)
prefixes_to_remove ==
  << <<"H","e","r","e","'","s"," ","t","h","e"," ","D","O","T"," ","c","o","d","e">>,
     <<"T","h","e"," ","D","O","T"," ","c","o","d","e"," ","i","s">>,
     <<"D","O","T"," ","c","o","d","e">>,
     <<"G","r","a","p","h">>,
     <<"H","e","r","e"," ","i","s"," ","t","h","e"," ","d","i","g","r","a","p","h">> >>

\* re.sub(prefix, '', cleaned, flags=re.IGNORECASE).strip() for one prefix
remove_prefix(s, lit) ==
  IF LitAtCI(s, 1, lit)
  THEN LET a == Len(lit) + 1
           b == IF a <= Len(s) /\ s[a] = ":" THEN a + 1 ELSE a
       IN  Strip(From(s, SkipSpace(s, b)))
  ELSE Strip(s)

RECURSIVE remove_prefixes(_, _)
\* for prefix in prefixes_to_remove: ... , from the k-th prefix on
remove_prefixes(s, k) ==
  IF k > Len(prefixes_to_remove) THEN s
  ELSE \* the empty string stays empty under every later prefix
       The({IF cleaned = <<>> THEN <<>> ELSE remove_prefixes(cleaned, k + 1) :
              cleaned \in {remove_prefix(s, prefixes_to_remove[k])}})

(***************************************************************************)
(* Pattern 4: the suffixes, each  \s*LITERAL<optional marks>$              *)
(* under re.IGNORECASE.  marks is the sequence of optional characters that *)
(* may follow the literal ( \.? or !?\.? ).                               *)
(***************************************************************************)
suffixes_to_remove ==
  << [lit   |-> <<"T","h","i","s"," ","c","r","e","a","t","e","s"," ","t","h","e"," ",
                  "k","n","o","w","l","e","d","g","e"," ","g","r","a","p","h">>,
      marks |-> <<".">>],
     [lit   |-> <<"T","h","e"," ","g","r","a","p","h"," ","i","s"," ","n","o","w"," ",
                  "r","e","a","d","y">>,
      marks |-> <<".">>],
     [lit   |-> <<"H","o","p","e"," ","t","h","i","s"," ","h","e","l","p","s">>,
      marks |-> <<"!", ".">>] >>

RECURSIVE SkipMarks(_, _, _, _)
\* position after the greedy optional marks marks[k..] that start at i
SkipMarks(s, i, marks, k) ==
  IF k > Len(marks) THEN i
  ELSE IF i <= Len(s) /\ s[i] = marks[k]
       THEN SkipMarks(s, i + 1, marks, k + 1)
       ELSE SkipMarks(s, i, marks, k + 1)

\* re.sub(suffix, '', cleaned, flags=re.IGNORECASE).strip() for one suffix
remove_suffix(s, suf) ==
  \* j: the first position where the literal and the marks reach the end,
  \* Len(s) + 1 when there is none
  The({IF j > Len(s) THEN Strip(s)
       ELSE \* the leftmost match starts at the first blank of the \s* run
            Strip(SubSeq(s, 1, MinOf({i \in 1..j : \A k \in i..(j - 1) : IsSpace(s[k])}) - 1)
                    \o From(s, SkipMarks(s, j + Len(suf.lit), suf.marks, 1))) :
         j \in {MinOf({x \in 1..(Len(s) + 1) :
                         \/ x = Len(s) + 1
                         \/ /\ LitAtCI(s, x, suf.lit)
                            /\ AtEnd(s, SkipMarks(s, x + Len(suf.lit), suf.marks, 1))})}})

RECURSIVE remove_suffixes(_, _)
\* for suffix in suffixes_to_remove: ... , from the k-th suffix on
remove_suffixes(s, k) ==
  IF k > Len(suffixes_to_remove) THEN s
  ELSE \* the empty string stays empty under every later suffix
       The({IF cleaned = <<>> THEN <<>> ELSE remove_suffixes(cleaned, k + 1) :
              cleaned \in {remove_suffix(s, suffixes_to_remove[k])}})

(***************************************************************************)
(* Pattern 5: keyword anchoring.                                           *)
(***************************************************************************)
KwGraph == <<"g","r","a","p","h">>

KwDigraph == <<"d","i","g","r","a","p","h">>

\* (di)?graph\s+ matches at position i under re.IGNORECASE
KeywordAt(s, i) ==
  \/ (LitAtCI(s, i, KwDigraph) /\ i + 7 <= Len(s) /\ IsSpace(s[i + 7]))
  \/ (LitAtCI(s, i, KwGraph) /\ i + 5 <= Len(s) /\ IsSpace(s[i + 5]))

\* re.match(r'^\s*(di)?graph\s+', cleaned, re.IGNORECASE)
StartsWithKeyword(s) == KeywordAt(s, SkipSpace(s, 1))

\* a faulty anchoring: the text is cut at the last occurrence of the keyword
anchor_last_keyword(s) ==
  IF StartsWithKeyword(s) THEN s
  ELSE The({IF hits = {} THEN s ELSE From(s, MaxOf(hits)) :
              hits \in {{i \in 1..Len(s) : KeywordAt(s, i)}}})

\* if not re.match(...): digraph_match = re.search(r'((?:di)?graph\s+.*)', ...)
anchor_keyword(s) ==
  IF StartsWithKeyword(s) THEN s
  ELSE The({IF hits = {} THEN s ELSE From(s, MinOf(hits)) :
              hits \in {{i \in 1..Len(s) : KeywordAt(s, i)}}})

(***************************************************************************)
(* fix_color_attributes                                                    *)
(***************************************************************************)
StyleFilled == <<"s","t","y","l","e","=","f","i","l","l","e","d">>

StyleFilledQuoted == <<"s","t","y","l","e","=","\"","f","i","l","l","e","d","\"">>

ColorLight == <<"c","o","l","o","r","=","l","i","g","h","t">>

ColorLightQuoted == <<"c","o","l","o","r","=","\"","l","i","g","h","t">>

FillPrefix == <<"f","i","l","l">>

FontcolorEq == <<"f","o","n","t","c","o","l","o","r","=">>

FillcolorEq == <<"f","i","l","l","c","o","l","o","r","=">>

\* \w+\s*\[ matches at p: the position of the bracket, 0 when it does not
BracketOf(s, p) ==
  IF p >= 1 /\ p <= Len(s) /\ IsWordChar(s[p])
  THEN The({IF b <= Len(s) /\ s[b] = "[" THEN b ELSE 0 :
              b \in {SkipSpace(s, SkipWord(s, p))}})
  ELSE 0

\* the first "]" after position b, 0 when there is none
FirstClose(s, b) ==
  The({IF r > Len(s) THEN 0 ELSE r :
         r \in {MinOf({x \in (b + 1)..(Len(s) + 1) : x = Len(s) + 1 \/ s[x] = "]"})}})

\* group 2 of color_pattern (quoted = FALSE) or of quoted_color_pattern
\* (quoted = TRUE) matches at q: the position after it, 0 when it does not
ColorAttrEnd(s, q, quoted) ==
  IF quoted
  THEN IF LitAt(s, q, ColorLightQuoted)
       THEN LET e == SkipWord(s, q + Len(ColorLightQuoted))
            IN  IF e > q + Len(ColorLightQuoted) /\ e <= Len(s) /\ s[e] = "\""
                THEN e + 1 ELSE 0
       ELSE 0
  ELSE IF LitAt(s, q, ColorLight)
       THEN LET e == SkipWord(s, q + Len(ColorLight))
            IN  IF e > q + Len(ColorLight) THEN e ELSE 0
       ELSE 0

\* group 3, ((?:\s*,\s*[^,\]]*)*\]) , matches from position a up to the
\* bracket at r
ColorTailOk(s, a, r) ==
  \/ a = r
  \/ LET t == SkipSpace(s, a) IN t < r /\ s[t] = ","

\* the end of group 1, (\w+\s*\[(?:[^,\]]*,\s*)*) : q follows the bracket at b
\* directly or follows a comma and blanks
ColorPrefixOk(s, b, q) ==
  \/ q = b + 1
  \/ \E c \in (b + 1)..(q - 1) :
        s[c] = "," /\ \A k \in (c + 1)..(q - 1) : IsSpace(s[k])

\* the positions at which group 2 can start for a match that begins at p
ColorStarts(s, p, quoted) ==
  The({IF b = 0 THEN {}
       ELSE The({IF r = 0 THEN {}
                 ELSE {q \in (b + 1)..(r - 1) :
                         /\ ColorAttrEnd(s, q, quoted) # 0
                         /\ ColorPrefixOk(s, b, q)
                         /\ ColorTailOk(s, ColorAttrEnd(s, q, quoted), r)} :
                   r \in {FirstClose(s, b)}}) :
         b \in {BracketOf(s, p)}})

RECURSIVE replace_color(_, _, _)
\* re.sub(color_pattern, replace_color, dot_code) and
\* re.sub(quoted_color_pattern, replace_quoted_color, cleaned), from pos on:
\* the greedy group 1 takes the last start, color= becomes fillcolor=
replace_color(s, pos, quoted) ==
  \* p: the first position from pos on where the pattern matches,
  \* Len(s) + 1 when there is none
  The({IF p > Len(s) THEN From(s, pos)
       ELSE The({SubSeq(s, pos, q - 1) \o FillPrefix \o SubSeq(s, q, r)
                   \o replace_color(s, r + 1, quoted) :
                   q \in {MaxOf(ColorStarts(s, p, quoted))},
                   r \in {FirstClose(s, BracketOf(s, p))}}) :
         p \in {MinOf({x \in pos..(Len(s) + 1) :
                         x = Len(s) + 1 \/ ColorStarts(s, x, quoted) # {}})}})

\* the attributes with the colour name appended: after a trailing comma
\* " fontcolor=X", else ", fontcolor=X"
AppendFontcolor(attributes, name) ==
  IF EndsWith(Strip(attributes), <<",">>)
  THEN attributes \o <<" ">> \o FontcolorEq \o name
  ELSE attributes \o <<",", " ">> \o FontcolorEq \o name

\* ensure_fontcolor on group 2 of node_pattern
ensure_fontcolor(attributes) ==
  IF ~Contains(attributes, FontcolorEq)
  THEN AppendFontcolor(attributes, <<"b","l","a","c","k">>)
  ELSE attributes

(***************************************************************************)
(* fix_unsupported_colors                                                  *)
(***************************************************************************)
\* a faulty table: lightblue is given the dark colour blue
color_mapping_with_blue ==
  << <<<<"l","i","g","h","t","g","r","a","y">>, <<"w","h","i","t","e">>>>,
     <<<<"l","i","g","h","t","g","r","e","y">>, <<"w","h","i","t","e">>>>,
     <<<<"l","i","g","h","t","b","l","u","e">>, <<"b","l","u","e">>>>,
     <<<<"l","i","g","h","t","g","r","e","e","n">>, <<"y","e","l","l","o","w">>>>,
     <<<<"l","i","g","h","t","c","y","a","n">>, <<"c","y","a","n">>>>,
     <<<<"l","i","g","h","t","p","i","n","k">>, <<"p","i","n","k">>>>,
     <<<<"l","i","g","h","t","y","e","l","l","o","w">>, <<"y","e","l","l","o","w">>>>,
     <<<<"l","i","g","h","t","s","a","l","m","o","n">>, <<"o","r","a","n","g","e">>>>,
     <<<<"l","i","g","h","t","c","o","r","a","l">>, <<"p","i","n","k">>>>,
     <<<<"l","i","g","h","t","s","t","e","e","l","b","l","u","e">>, <<"c","y","a","n">>>>,
     <<<<"l","i","g","h","t","s","e","a","g","r","e","e","n">>, <<"y","e","l","l","o","w">>>>,
     <<<<"l","i","g","h","t","s","l","a","t","e","g","r","a","y">>, <<"w","h","i","t","e">>>>,
     <<<<"l","i","g","h","t","s","l","a","t","e","g","r","e","y">>, <<"w","h","i","t","e">>>> >>

\* color_mapping, in the order of the dict
color_mapping ==
  << <<<<"l","i","g","h","t","g","r","a","y">>, <<"w","h","i","t","e">>>>,
     <<<<"l","i","g","h","t","g","r","e","y">>, <<"w","h","i","t","e">>>>,
     <<<<"l","i","g","h","t","b","l","u","e">>, <<"c","y","a","n">>>>,
     <<<<"l","i","g","h","t","g","r","e","e","n">>, <<"y","e","l","l","o","w">>>>,
     <<<<"l","i","g","h","t","c","y","a","n">>, <<"c","y","a","n">>>>,
     <<<<"l","i","g","h","t","p","i","n","k">>, <<"p","i","n","k">>>>,
     <<<<"l","i","g","h","t","y","e","l","l","o","w">>, <<"y","e","l","l","o","w">>>>,
     <<<<"l","i","g","h","t","s","a","l","m","o","n">>, <<"o","r","a","n","g","e">>>>,
     <<<<"l","i","g","h","t","c","o","r","a","l">>, <<"p","i","n","k">>>>,
     <<<<"l","i","g","h","t","s","t","e","e","l","b","l","u","e">>, <<"c","y","a","n">>>>,
     <<<<"l","i","g","h","t","s","e","a","g","r","e","e","n">>, <<"y","e","l","l","o","w">>>>,
     <<<<"l","i","g","h","t","s","l","a","t","e","g","r","a","y">>, <<"w","h","i","t","e">>>>,
     <<<<"l","i","g","h","t","s","l","a","t","e","g","r","e","y">>, <<"w","h","i","t","e">>>> >>

dark_colors == {<<"b","l","u","e">>, <<"p","u","r","p","l","e">>, <<"r","e","d">>, <<"g","r","e","e","n">>}

light_colors == {<<"w","h","i","t","e">>, <<"y","e","l","l","o","w">>, <<"c","y","a","n">>, <<"p","i","n","k">>, <<"o","r","a","n","g","e">>, <<"g","r","a","y">>}

\* pattern, then \b, matches at position i
PatternAt(s, i, pat) == LitAt(s, i, pat) /\ WordBoundary(s, i + Len(pat))

RECURSIVE SubAll(_, _, _, _)
\* re.sub(pattern + r'\b', replacement, dot_code) from pos on
SubAll(s, pos, pat, repl) ==
  The({IF i > Len(s) THEN From(s, pos)
       ELSE SubSeq(s, pos, i - 1) \o repl \o SubAll(s, i + Len(pat), pat, repl) :
         i \in {MinOf({x \in pos..(Len(s) + 1) :
                         x = Len(s) + 1 \/ PatternAt(s, x, pat)})}})

\* if re.search(pattern, dot_code): dot_code = re.sub(pattern, replacement, dot_code)
replace_pattern(s, pat, repl) ==
  IF \E i \in 1..Len(s) : PatternAt(s, i, pat)
  THEN SubAll(s, 1, pat, repl)
  ELSE s

Quoted(name) == <<"\"">> \o name \o <<"\"">>

\* the four replacements of one color_mapping item
replace_unsupported(s, unsupported, supported) ==
  LET s1 == replace_pattern(s, FillcolorEq \o unsupported, FillcolorEq \o supported)
      s2 == replace_pattern(s1, FillcolorEq \o Quoted(unsupported), FillcolorEq \o Quoted(supported))
      s3 == replace_pattern(s2, <<"c","o","l","o","r","=">> \o unsupported, <<"c","o","l","o","r","=">> \o supported)
      s4 == replace_pattern(s3, <<"c","o","l","o","r","=">> \o Quoted(unsupported), <<"c","o","l","o","r","=">> \o Quoted(supported))
  IN  s4

RECURSIVE replace_all_unsupported(_, _)
\* for unsupported, supported in color_mapping.items(): ... , from item k on
replace_all_unsupported(s, k) ==
  IF k > Len(color_mapping) THEN s
  ELSE \* the empty string stays empty under every later item
       The({IF dot_code = <<>> THEN <<>> ELSE replace_all_unsupported(dot_code, k + 1) :
              dot_code \in {replace_unsupported(s, color_mapping[k][1], color_mapping[k][2])}})

\* (["\']?)(\w+)\1 matches at position j: [ok, color, stop]
ColorValueAt(s, j) ==
  IF j <= Len(s) /\ s[j] \in {"\"", "'"}
  THEN LET w == SkipWord(s, j + 1)
       IN  IF w > j + 1 /\ w <= Len(s) /\ s[w] = s[j]
           THEN [ok |-> TRUE, color |-> SubSeq(s, j + 1, w - 1), stop |-> w + 1]
           ELSE [ok |-> FALSE, color |-> <<>>, stop |-> j]
  ELSE LET w == SkipWord(s, j)
       IN  IF j <= Len(s) /\ w > j
           THEN [ok |-> TRUE, color |-> SubSeq(s, j, w - 1), stop |-> w]
           ELSE [ok |-> FALSE, color |-> <<>>, stop |-> j]

RECURSIVE SubFontcolor(_, _, _)
\* re.sub(r'fontcolor=(["\']?)\w+\1', f'fontcolor={optimal_fontcolor}', attributes)
SubFontcolor(s, pos, optimal_fontcolor) ==
  The({IF i > Len(s) THEN From(s, pos)
       ELSE SubSeq(s, pos, i - 1) \o FontcolorEq \o optimal_fontcolor
              \o SubFontcolor(s, ColorValueAt(s, i + Len(FontcolorEq)).stop, optimal_fontcolor) :
         i \in {MinOf({x \in pos..(Len(s) + 1) :
                         \/ x = Len(s) + 1
                         \/ /\ LitAt(s, x, FontcolorEq)
                            /\ ColorValueAt(s, x + Len(FontcolorEq)).ok})}})

\* optimize_text_contrast on group 2 of node_pattern
optimize_text_contrast(attributes) ==
  \* i: where fillcolor_match starts, Len(attributes) + 1 when there is none
  The({IF i > Len(attributes) THEN attributes
       ELSE The({IF Contains(attributes, FontcolorEq)
                 THEN SubFontcolor(attributes, 1, optimal_fontcolor)
                 ELSE AppendFontcolor(attributes, optimal_fontcolor) :
                   optimal_fontcolor \in
                     {IF Lower(ColorValueAt(attributes, i + Len(FillcolorEq)).color) \in dark_colors
                      THEN <<"w","h","i","t","e">> ELSE <<"b","l","a","c","k">>}}) :
         i \in {MinOf({x \in 1..(Len(attributes) + 1) :
                         \/ x = Len(attributes) + 1
                         \/ /\ LitAt(attributes, x, FillcolorEq)
                            /\ ColorValueAt(attributes, x + Len(FillcolorEq)).ok})}})

(***************************************************************************)
(* node_pattern, (\w+\s*\[)([^\]]+)(\]) , shared by both colour functions. *)
(***************************************************************************)
\* the position of the closing bracket of a node_pattern match at p, else 0
NodeCloseOf(s, p) ==
  The({IF b = 0 THEN 0
       ELSE The({IF r > b + 1 THEN r ELSE 0 : r \in {FirstClose(s, b)}}) :
         b \in {BracketOf(s, p)}})

RECURSIVE sub_node_pattern(_, _, _)
\* re.sub(node_pattern, callback, text) from pos on; callback names
\* ensure_fontcolor or optimize_text_contrast
sub_node_pattern(s, pos, callback) ==
  \* p: the first position from pos on where node_pattern matches,
  \* Len(s) + 1 when there is none; b and r: its brackets
  The({IF p > Len(s) THEN From(s, pos)
       ELSE The({SubSeq(s, pos, b)
                   \o (IF callback = "ensure_fontcolor"
                       THEN ensure_fontcolor(SubSeq(s, b + 1, r - 1))
                       ELSE optimize_text_contrast(SubSeq(s, b + 1, r - 1)))
                   \o <<"]">> \o sub_node_pattern(s, r + 1, callback) :
                   b \in {BracketOf(s, p)}, r \in {NodeCloseOf(s, p)}}) :
         p \in {MinOf({x \in pos..(Len(s) + 1) :
                         x = Len(s) + 1 \/ NodeCloseOf(s, x) # 0})}})

\* a faulty fix_color_attributes: the test for style=filled is left out
fix_color_attributes_ungated(dot_code) ==
  IF dot_code = <<>> THEN dot_code
  ELSE sub_node_pattern(replace_color(replace_color(dot_code, 1, FALSE), 1, TRUE),
                        1, "ensure_fontcolor")

fix_color_attributes(dot_code) ==
  IF dot_code = <<>> THEN dot_code
  ELSE IF Contains(dot_code, StyleFilled) \/ Contains(dot_code, StyleFilledQuoted)
       THEN sub_node_pattern(replace_color(replace_color(dot_code, 1, FALSE), 1, TRUE),
                             1, "ensure_fontcolor")
       ELSE dot_code

fix_unsupported_colors(dot_code) ==
  IF dot_code = <<>> THEN dot_code
  ELSE sub_node_pattern(replace_all_unsupported(dot_code, 1), 1, "optimize_text_contrast")

(***************************************************************************)
(* clean_dot_code                                                          *)
(***************************************************************************)
\* the text after Patterns 1-4: fence, backticks, prefixes, suffixes
strip_chatter(raw_output) ==
  remove_suffixes(remove_prefixes(strip_backticks(strip_markdown_block(Strip(raw_output))), 1), 1)

\* clean_dot_code with the values its local `cleaned` takes: after Pattern 4,
\* after Pattern 5, and at the return
clean_dot_code_locals(raw_output) ==
  IF raw_output = <<>> \/ Strip(raw_output) = <<>>
  THEN [chatter_free |-> <<>>, anchored |-> <<>>, cleaned |-> <<>>]
  ELSE The({The({[chatter_free |-> c, anchored |-> a,
                  cleaned |-> Strip(fix_unsupported_colors(fix_color_attributes(a)))] :
                   a \in {anchor_keyword(c)}}) :
              c \in {strip_chatter(raw_output)}})

clean_dot_code(raw_output) == clean_dot_code_locals(raw_output).cleaned

(***************************************************************************)
(* validate_dot_syntax.  probe is the outcome of requests.head: the status *)
(* "200", another status, or "raises".                                     *)
(***************************************************************************)
ProbeOutcomes == {"200", "400", "raises"}

ReasonEmpty == "DOT code is empty"

ReasonMissingKeyword == "DOT code must start with 'digraph' or 'graph'"

ReasonUnbalanced == "Unbalanced braces"

ReasonProbeStatus == "QuickChart API validation failed with status"

ReasonException == "DOT syntax validation failed"

ReasonValid == "Valid DOT syntax"

\* faulty validators: validate_dot_syntax with one of its steps left out or
\* changed, named by fault
faulty_validate(dot_code, probe, fault) ==
  IF fault # "no empty test" /\ (dot_code = <<>> \/ Strip(dot_code) = <<>>)
  THEN [is_valid |-> FALSE, error_msg |-> ReasonEmpty, probed |-> FALSE]
  ELSE IF fault = "braces first" /\ Count(dot_code, "{") # Count(dot_code, "}")
  THEN [is_valid |-> FALSE, error_msg |-> ReasonUnbalanced, probed |-> FALSE]
  ELSE LET dot_code_lower == IF fault = "case sensitive" THEN dot_code ELSE Strip(Lower(dot_code))
       IN  IF ~(StartsWith(dot_code_lower, KwDigraph) \/ StartsWith(dot_code_lower, KwGraph))
           THEN [is_valid |-> FALSE, error_msg |-> ReasonMissingKeyword, probed |-> FALSE]
           ELSE IF fault # "no brace test" /\ Count(dot_code, "{") # Count(dot_code, "}")
           THEN [is_valid |-> FALSE, error_msg |-> ReasonUnbalanced, probed |-> FALSE]
           ELSE IF probe = "200" \/ (fault = "any status" /\ probe # "raises")
           THEN [is_valid |-> TRUE, error_msg |-> ReasonValid, probed |-> TRUE]
           ELSE IF probe = "raises"
           THEN [is_valid |-> FALSE, error_msg |-> ReasonException, probed |-> TRUE]
           ELSE [is_valid |-> FALSE, error_msg |-> ReasonProbeStatus, probed |-> TRUE]

\* without the test for empty text
validate_without_empty_test(dot_code, probe) == faulty_validate(dot_code, probe, "no empty test")

\* without the comparison of the brace counts
validate_without_brace_test(dot_code, probe) == faulty_validate(dot_code, probe, "no brace test")

\* with the keyword looked for in the text as given
validate_case_sensitive(dot_code, probe) == faulty_validate(dot_code, probe, "case sensitive")

\* with the brace counts compared before the keyword is looked for
validate_braces_first(dot_code, probe) == faulty_validate(dot_code, probe, "braces first")

\* with every status of the render service taken for 200
validate_any_status(dot_code, probe) == faulty_validate(dot_code, probe, "any status")

validate_dot_syntax(dot_code, probe) ==
  IF dot_code = <<>> \/ Strip(dot_code) = <<>>
  THEN [is_valid |-> FALSE, error_msg |-> ReasonEmpty, probed |-> FALSE]
  ELSE LET dot_code_lower == Strip(Lower(dot_code))
       IN  IF ~(StartsWith(dot_code_lower, KwDigraph) \/ StartsWith(dot_code_lower, KwGraph))
           THEN [is_valid |-> FALSE, error_msg |-> ReasonMissingKeyword, probed |-> FALSE]
           ELSE IF Count(dot_code, "{") # Count(dot_code, "}")
           THEN [is_valid |-> FALSE, error_msg |-> ReasonUnbalanced, probed |-> FALSE]
           ELSE IF probe = "200"
           THEN [is_valid |-> TRUE, error_msg |-> ReasonValid, probed |-> TRUE]
           ELSE IF probe = "raises"
           THEN [is_valid |-> FALSE, error_msg |-> ReasonException, probed |-> TRUE]
           ELSE [is_valid |-> FALSE, error_msg |-> ReasonProbeStatus, probed |-> TRUE]

(***************************************************************************)
(* compile_dot_to_png                                                      *)
(***************************************************************************)
\* the value None where a str is expected
NoneStr == <<"None">>

\* urllib.parse.quote for one character: letters, digits and _.-~/ are kept,
\* every other character becomes its percent escape
QuoteChar(c) ==
  IF IsWordChar(c) \/ c \in {".", "-", "~", "/"} THEN c
  ELSE CASE c = " "  -> "%20"
         [] c = "\n" -> "%0A"
         [] c = "\t" -> "%09"
         [] c = "\r" -> "%0D"
         [] c = "!"  -> "%21"
         [] c = "\"" -> "%22"
         [] c = "#"  -> "%23"
         [] c = "'"  -> "%27"
         [] c = ","  -> "%2C"
         [] c = ":"  -> "%3A"
         [] c = ";"  -> "%3B"
         [] c = "="  -> "%3D"
         [] c = ">"  -> "%3E"
         [] c = "["  -> "%5B"
         [] c = "\\" -> "%5C"
         [] c = "]"  -> "%5D"
         [] c = Backtick -> "%60"
         [] c = "{"  -> "%7B"
         [] c = "}"  -> "%7D"

\* quote(cleaned_dot): the escapes of the characters, in order
Quote(s) == [i \in 1..Len(s) |-> QuoteChar(s[i])]

\* f"https://quickchart.io/graphviz?graph={encoded_dot}"
ApiUrl(encoded_dot) == <<"https://quickchart.io/graphviz?graph=">> \o encoded_dot

NotCompiled ==
  [called |-> FALSE, returned |-> FALSE, cleaned_dot |-> NoneStr, is_valid |-> FALSE,
   error_msg |-> "", probed |-> FALSE, result |-> <<>>]

\* compile_dot_to_png up to the validation: the cleaning and the empty test.
\* The record holds the locals of the call; result is the returned tuple
\* once returned is TRUE
compile_dot_to_png_clean(dot_code) ==
  The({[called |-> TRUE, returned |-> Strip(cleaned_dot) = <<>>, cleaned_dot |-> cleaned_dot,
        is_valid |-> FALSE, error_msg |-> "", probed |-> FALSE,
        result |-> IF Strip(cleaned_dot) = <<>> THEN <<NoneStr, NoneStr>> ELSE <<>>] :
         cleaned_dot \in {clean_dot_code(dot_code)}})

\* a faulty compile_dot_to_png: the cleaned text is put in the URL as it is
compile_dot_to_png_unquoted(c, probe, makedirs_ok) ==
  LET v == validate_dot_syntax(c.cleaned_dot, probe)
  IN  [c EXCEPT !.returned = TRUE, !.is_valid = v.is_valid, !.error_msg = v.error_msg,
                !.probed = v.probed,
                !.result = IF v.is_valid /\ makedirs_ok
                           THEN <<NoneStr, ApiUrl(c.cleaned_dot)>>
                           ELSE <<NoneStr, NoneStr>>]

\* compile_dot_to_png from the validation on, for the call c.
\* makedirs_ok = FALSE is os.makedirs raising, caught by the except clause
compile_dot_to_png_validate(c, probe, makedirs_ok) ==
  LET v == validate_dot_syntax(c.cleaned_dot, probe)
  IN  [c EXCEPT !.returned = TRUE, !.is_valid = v.is_valid, !.error_msg = v.error_msg,
                !.probed = v.probed,
                !.result = IF v.is_valid /\ makedirs_ok
                           THEN <<NoneStr, ApiUrl(Quote(c.cleaned_dot))>>
                           ELSE <<NoneStr, NoneStr>>]

\* the truth value Python gives a tuple: a tuple is false only when empty
TupleTruthy(t) == Len(t) # 0

(***************************************************************************)
(* The raw outputs of the visualization agent that are explored.  A raw    *)
(* output is a preamble, a graph header, a body and a postamble; the body  *)
(* is an optional global node statement and up to MaxNodes statements.     *)
(***************************************************************************)
MaxNodes == 1

\* what the model writes before the graph
Preambles ==
  << <<>>,
     <<"S","u","r","e","!"," ">>,
     <<"G","r","a","p","h",":"," ">>,
     <<Backtick,Backtick,Backtick,"d","o","t","\n">>,
     <<"p","r","o","s","e"," ",Backtick,Backtick,Backtick>>,
     <<"H","e","r","e","'","s"," ","t","h","e"," ","D","O","T"," ","c","o","d","e",":","\n">> >>

\* the graph declaration
Headers ==
  << <<"d","i","g","r","a","p","h"," ","G"," ","{">>,
     <<"g","r","a","p","h"," ","G"," ","{">> >>

\* what the model writes after the body
Postambles ==
  << <<" ","}">>,
     <<" ","}","\n",Backtick,Backtick,Backtick>>,
     <<" ","}",Backtick,Backtick,Backtick," ","t","r","a","i","l","i","n","g">>,
     <<" ","}"," ","H","o","p","e"," ","t","h","i","s"," ","h","e","l","p","s","!">>,
     <<" ","}"," ","T","h","e"," ","g","r","a","p","h"," ","i","s"," ","n","o","w"," ","r","e","a","d","y","."," ","H","o","p","e"," ","t","h","i","s"," ","h","e","l","p","s","!">>,
     <<" ">> >>

\* the global node statement, or none
GlobalStatements ==
  << <<>>,
     <<" ","n","o","d","e"," ","[","s","h","a","p","e","=","b","o","x",","," ","s","t","y","l","e","=","f","i","l","l","e","d","]",";">> >>

\* node and edge statements with colour attributes
NodeStatements ==
  << <<"A"," ","[","l","a","b","e","l","=","\"","R","o","o","t","\"",","," ","c","o","l","o","r","=","l","i","g","h","t","g","r","a","y","]",";">>,
     <<"X"," ","[","s","t","y","l","e","=","f","i","l","l","e","d",","," ","c","o","l","o","r","=","l","i","g","h","t","b","l","u","e","]">>,
     <<"\"","N","o","d","e"," ","A","\""," ","[","s","t","y","l","e","=","f","i","l","l","e","d",","," ","c","o","l","o","r","=","l","i","g","h","t","b","l","u","e","]",";">>,
     <<"A"," ","[","s","t","y","l","e","=","f","i","l","l","e","d",","," ","f","i","l","l","c","o","l","o","r","=","\"","l","i","g","h","t","b","l","u","e","\"","]",";">>,
     <<"A"," ","[","c","o","l","o","r","=","\"","l","i","g","h","t","p","i","n","k","\"",","," ","s","h","a","p","e","=","b","o","x","]",";">>,
     <<"A"," ","[","f","i","l","l","c","o","l","o","r","=","b","l","u","e",","," ","f","o","n","t","c","o","l","o","r","=","b","l","a","c","k","]",";">>,
     <<"A"," ","[","f","i","l","l","c","o","l","o","r","=","y","e","l","l","o","w",","," ","f","o","n","t","c","o","l","o","r","=","\"","w","h","i","t","e","\"","]",";">>,
     <<"\"","A","\""," ","[","f","i","l","l","c","o","l","o","r","=","b","l","u","e","]",";">>,
     <<"A"," ","[","l","a","b","e","l","=","\"","c","o","l","o","r","=","l","i","g","h","t","b","l","u","e","\"",","," ","s","t","y","l","e","=","f","i","l","l","e","d","]",";">>,
     <<"A"," ","[","l","a","b","e","l","=","\"","a",","," ","b","\\","n","c","\"",","," ","s","t","y","l","e","=","f","i","l","l","e","d",","," ","c","o","l","o","r","=","l","i","g","h","t","g","r","e","e","n","]",";">> >>

\* outputs that are not a wrapped graph
FixedOutputs ==
  << <<>>,
     <<" "," "," ">>,
     <<"n","o","t"," ","a"," ","g","r","a","p","h"," ","a","t"," ","a","l","l">>,
     <<"h","e","l","l","o"," ","w","o","r","l","d">>,
     <<"S","u","r","e","!"," ","d","i","g","r","a","p","h"," ","G"," ","{","A","-",">","B",";","}">>,
     <<"g","r","a","p","h"," ","G"," ","{"," ","A"," ","-","-"," ","B"," ","}">>,
     <<"p","r","o","s","e"," ",Backtick,Backtick,Backtick,"g","r","a","p","h"," ","G"," ","{"," ","A"," ","-",">"," ","B"," ","}",Backtick,Backtick,Backtick," ","t","r","a","i","l","i","n","g">>,
     <<"d","i","g","r","a","p","h"," ","G"," ","{"," ","A"," ","-",">"," ","B">>,
     <<"D","O","T"," ","c","o","d","e",":"," ","H","e","r","e","'","s"," ","t","h","e"," ","D","O","T"," ","c","o","d","e",":"," ","a","b","c">>,
     <<"X"," ","[","s","t","y","l","e","=","f","i","l","l","e","d",","," ","c","o","l","o","r","=","l","i","g","h","t","b","l","u","e","]">>,
     <<"d","i","g","r","a","p","h"," ","G"," ","{"," ","n","o","d","e"," ","[","s","t","y","l","e","=","f","i","l","l","e","d","]",";"," ","A"," ","-",">"," ","B"," ","[","c","o","l","o","r","=","l","i","g","h","t","b","l","u","e","]",";"," ","}">>,
     <<"d","i","g","r","a","p","h"," ","G"," ","{"," ","n","o","d","e"," ","[","s","t","y","l","e","=","f","i","l","l","e","d","]",";"," ","A"," ","[","l","a","b","e","l","=","\"","f","o","n","t","c","o","l","o","r","=","r","e","d","\"","]",";"," ","}">> >>

PlainBody == <<" ","A"," ","-",">"," ","B",";">>

RECURSIVE Join(_, _)
\* the statements ss[k..], each preceded by a blank
Join(ss, k) == IF k > Len(ss) THEN <<>> ELSE <<" ">> \o ss[k] \o Join(ss, k + 1)

\* the sequences of at most n node statements
StatementLists(n) == UNION {[1..m -> Range(NodeStatements)] : m \in 0..n}

\* chatter around a plain graph
WrappedOutputs ==
  {pre \o head \o PlainBody \o post :
     pre \in Range(Preambles), head \in Range(Headers), post \in Range(Postambles)}

\* a bare digraph with attribute statements
StatementOutputs ==
  {Headers[1] \o g \o Join(ss, 1) \o <<" ", "}">> :
     g \in Range(GlobalStatements), ss \in StatementLists(MaxNodes)}

RawOutputs == WrappedOutputs \cup StatementOutputs \cup Range(FixedOutputs)

(***************************************************************************)
(* pipeline: the messages of its except clause.                            *)
(***************************************************************************)
\* texts of the exceptions the provider libraries raise
ErrorTexts ==
  {<<"R","a","t","e"," ","l","i","m","i","t"," ","e","x","c","e","e","d","e","d">>,
   <<"I","n","v","a","l","i","d"," ","A","P","I"," ","k","e","y">>,
   <<"C","o","n","n","e","c","t","i","o","n"," ","r","e","s","e","t">>,
   <<"Q","u","o","t","a"," ","e","x","c","e","e","d","e","d"," ","f","o","r"," ","A","P","I"," ","k","e","y">>,
   <<"A","u","t","h","e","n","t","i","c","a","t","i","o","n"," ","t","i","m","e","o","u","t">>,
   <<"R","e","q","u","e","s","t"," ","t","i","m","e","o","u","t",":"," ","m","a","x","_","t","o","k","e","n","s"," ","t","o","o"," ","l","a","r","g","e">>,
   <<"m","a","x","_","t","o","k","e","n","s"," ","e","x","c","e","e","d","s"," ","t","h","e"," ","l","i","m","i","t">>,
   <<"T","i","m","e","o","u","t"," ","a","f","t","e","r"," ","r","a","t","e"," ","l","i","m","i","t"," ","r","e","t","r","y">>}

MsgNotEducational == "The provided content doesn't appear to be educational material suitable for creating knowledge graphs."

MsgNoCode == "Unable to generate graph code from the content."

MsgMalformed == "Generated graph code is malformed."

MsgRateLimit == "API rate limit reached. Please wait a moment and try again."

MsgAuth == "Authentication failed. Please check your API key."

MsgTimeout == "Request timed out. Please try with shorter content."

MsgTooLong == "Content is too long for the selected model. Please try shorter text."

MsgGeneric == "An error occurred while processing your content. Please try again."

\* a faulty except clause: api key is looked for before rate limit
pipeline_error_message_key_first(e) ==
  LET error_str == Lower(e)
  IN  IF Contains(error_str, <<"a","p","i"," ","k","e","y">>) \/ Contains(error_str, <<"a","u","t","h","e","n","t","i","c","a","t","i","o","n">>)
      THEN MsgAuth
      ELSE IF Contains(error_str, <<"r","a","t","e"," ","l","i","m","i","t">>) \/ Contains(error_str, <<"q","u","o","t","a">>)
      THEN MsgRateLimit
      ELSE IF Contains(error_str, <<"t","i","m","e","o","u","t">>) THEN MsgTimeout
      ELSE IF Contains(error_str, <<"m","a","x","_","t","o","k","e","n","s">>) THEN MsgTooLong
      ELSE MsgGeneric

\* the except clause of pipeline: the message for the exception text e
pipeline_error_message(e) ==
  LET error_str == Lower(e)
  IN  IF Contains(error_str, <<"r","a","t","e"," ","l","i","m","i","t">>) \/ Contains(error_str, <<"q","u","o","t","a">>)
      THEN MsgRateLimit
      ELSE IF Contains(error_str, <<"a","p","i"," ","k","e","y">>) \/ Contains(error_str, <<"a","u","t","h","e","n","t","i","c","a","t","i","o","n">>)
      THEN MsgAuth
      ELSE IF Contains(error_str, <<"t","i","m","e","o","u","t">>) THEN MsgTimeout
      ELSE IF Contains(error_str, <<"m","a","x","_","t","o","k","e","n","s">>) THEN MsgTooLong
      ELSE MsgGeneric

\* the pair pipeline returns: (summary, dot_code) or (message, None)
PipelineFailure(msg) == [first |-> msg, dot_code |-> NoneStr]

SummaryText == "summary"

(***************************************************************************)
(* process_lecture of the REST backend: requests and the environment.      *)
(***************************************************************************)
Providers == {<<"a","n","t","h","r","o","p","i","c">>, <<"O","p","e","n","R","o","u","t","e","r">>, <<"c","o","h","e","r","e">>}

ApiKeys == {<<>>, <<" "," ">>, <<"s","k","-","a","n","t","-","1">>}

Models == {<<"c","l","a","u","d","e","-","3","-","5","-","h","a","i","k","u","-","2","0","2","4","1","0","2","2">>}

Requests == [provider : Providers, model : Models, api_key : ApiKeys]

\* validation_patterns: the key prefix of a provider, <<>> when it has none
validation_patterns(provider_lower) ==
  IF provider_lower = <<"a","n","t","h","r","o","p","i","c">> THEN <<"s","k","-","a","n","t","-">>
  ELSE IF provider_lower = <<"o","p","e","n","a","i">> THEN <<"s","k","-">>
  ELSE IF provider_lower = <<"o","p","e","n","r","o","u","t","e","r">> THEN <<"s","k","-","o","r","-">>
  ELSE <<>>

\* the environment variable that holds the key of a provider
KeyVariable(provider_lower) ==
  IF provider_lower = <<"a","n","t","h","r","o","p","i","c">> THEN "ANTHROPIC_API_KEY"
  ELSE IF provider_lower = <<"o","p","e","n","a","i">> THEN "OPENAI_API_KEY"
  ELSE IF provider_lower = <<"o","p","e","n","r","o","u","t","e","r">> THEN "OPENROUTER_API_KEY"
  ELSE "unsupported"

EnvNames == {"PROVIDER", "MODEL_NAME", "ANTHROPIC_API_KEY", "OPENAI_API_KEY", "OPENROUTER_API_KEY"}

MsgKeyRequired == "API key is required"

MsgKeyFormat == "Invalid API key format"

MsgUnsupported == "Provider is not supported"

MsgCompileFailed == "Failed to generate the graph image."

MsgNoGraph == "Unable to generate a valid knowledge graph from the provided content."

MsgUnexpected == "An unexpected error occurred while processing your content."

NoResponse == [success |-> FALSE, has_graph_path |-> FALSE, error |-> "pending"]

Failure(msg) == [success |-> FALSE, has_graph_path |-> FALSE, error |-> msg]

Success == [success |-> TRUE, has_graph_path |-> TRUE, error |-> ""]

NoLocals == [chatter_free |-> NoneStr, anchored |-> NoneStr, cleaned |-> NoneStr]

\* answers of the validation agent (the content of its message)
ClassifierResponses ==
  {<<"V","A","L","I","D">>,
   <<"v","a","l","i","d","\n">>,
   <<"I","N","V","A","L","I","D">>,
   <<" ","i","n","v","a","l","i","d","\n">>,
   <<"I","n","v","a","l","i","d",":"," ","n","o","t"," ","e","d","u","c","a","t","i","o","n","a","l"," ","m","a","t","e","r","i","a","l">>}

\* texts validate_dot_syntax is called on directly, beside the agent's outputs
ValidateExtras ==
  {<<>>,
   <<" ","\n","\t">>,
   <<" "," ","D","i","g","r","a","p","h"," ","G"," ","{"," ","A"," ","-",">"," ","B"," ","}","\n">>,
   <<"G","R","A","P","H"," ","G"," ","{"," ","A"," ","-","-"," ","B"," ","}">>,
   <<"d","i","g","r","a","p","h"," ","G"," ","{"," ","A"," ","-",">"," ","B">>,
   <<"d","i","g","r","a","p","h"," ","G"," ","{"," ","A"," ","-",">"," ","B"," ","}","}">>,
   <<"g","r","a","p","h"," ","{">>,
   <<"h","e","l","l","o"," ","w","o","r","l","d">>,
   <<"h","e","l","l","o"," ","{">>,
   <<"s","t","r","i","c","t"," ","d","i","g","r","a","p","h"," ","G"," ","{"," ","}">>,
   <<"s","u","b","g","r","a","p","h"," ","c","l","u","s","t","e","r"," ","{"," ","}">>,
   <<"{"," ","d","i","g","r","a","p","h"," ","}">>,
   <<"d","i","g","r","a","p","h","s"," ","{"," ","}">>}

ValidateInputs == RawOutputs \cup ValidateExtras

NotValidated ==
  [called |-> FALSE, dot_code |-> NoneStr, probe |-> "none", is_valid |-> FALSE,
   error_msg |-> "", probed |-> FALSE]

\* cleanup_old_files: its default max_age_hours
max_age_hours == 24

\* the output directory before the front end starts: the entries of
\* os.listdir with os.path.isfile and their age in hours
OutputDir ==
  [f \in {"graph_1.png", "graph_2.png", "graph_3.png", "graph_4.png", "archive"} |->
     IF f = "graph_1.png" THEN [is_file |-> TRUE, age |-> 25]
     ELSE IF f = "graph_2.png" THEN [is_file |-> TRUE, age |-> 48]
     ELSE IF f = "graph_3.png" THEN [is_file |-> TRUE, age |-> 24]
     ELSE IF f = "graph_4.png" THEN [is_file |-> TRUE, age |-> 1]
     ELSE [is_file |-> FALSE, age |-> 72]]

\* the orders os.listdir may return the entries of dir in
Listings(dir) ==
  {o \in [1..Cardinality(DOMAIN dir) -> DOMAIN dir] :
     \A i, j \in DOMAIN o : o[i] = o[j] => i = j}

\* the loop of cleanup_old_files from entry k of the listing on: the names it
\* removed.  os.remove raises on the entry named failing ("": on none), which
\* ends the loop
RECURSIVE removed_from(_, _, _, _)
removed_from(dir, listing, k, failing) ==
  IF k > Len(listing) THEN {}
  ELSE The({IF dir[filename].is_file /\ dir[filename].age > max_age_hours
            THEN IF filename = failing THEN {}
                 ELSE {filename} \cup removed_from(dir, listing, k + 1, failing)
            ELSE removed_from(dir, listing, k + 1, failing) :
            filename \in {listing[k]}})

\* cleanup_old_files: the directory it leaves
cleanup_old_files(dir, listing, failing) ==
  [f \in DOMAIN dir \ removed_from(dir, listing, 1, failing) |-> dir[f]]

NoRequest == [provider |-> NoneStr, model |-> NoneStr, api_key |-> NoneStr]

\* get_model_max_tokens: the known output limits of the models, in the order
\* of the dictionary
model_limits ==
  << <<<<"c","l","a","u","d","e","-","o","p","u","s","-","4","-","1","-","2","0","2","5","0","8","0","5">>, 32000>>,
     <<<<"c","l","a","u","d","e","-","o","p","u","s","-","4","-","2","0","2","5","0","5","1","4">>, 32000>>,
     <<<<"c","l","a","u","d","e","-","s","o","n","n","e","t","-","4","-","2","0","2","5","0","5","1","4">>, 64000>>,
     <<<<"c","l","a","u","d","e","-","3","-","7","-","s","o","n","n","e","t","-","2","0","2","5","0","2","1","9">>, 64000>>,
     <<<<"c","l","a","u","d","e","-","3","-","5","-","h","a","i","k","u","-","2","0","2","4","1","0","2","2">>, 8000>>,
     <<<<"g","p","t","-","5">>, 128000>>,
     <<<<"g","p","t","-","4",".","1">>, 32000>>,
     <<<<"g","p","t","-","4","o">>, 128000>>,
     <<<<"g","p","t","-","4","o","-","m","i","n","i">>, 16000>>,
     <<<<"g","p","t","-","4","-","t","u","r","b","o">>, 4000>>,
     <<<<"a","n","t","h","r","o","p","i","c","/","c","l","a","u","d","e","-","o","p","u","s","-","4","-","1","-","2","0","2","5","0","8","0","5">>, 32000>>,
     <<<<"a","n","t","h","r","o","p","i","c","/","c","l","a","u","d","e","-","o","p","u","s","-","4","-","2","0","2","5","0","5","1","4">>, 32000>>,
     <<<<"a","n","t","h","r","o","p","i","c","/","c","l","a","u","d","e","-","s","o","n","n","e","t","-","4","-","2","0","2","5","0","5","1","4">>, 64000>>,
     <<<<"a","n","t","h","r","o","p","i","c","/","c","l","a","u","d","e","-","3","-","7","-","s","o","n","n","e","t","-","2","0","2","5","0","2","1","9">>, 64000>>,
     <<<<"a","n","t","h","r","o","p","i","c","/","c","l","a","u","d","e","-","3","-","5","-","h","a","i","k","u","-","2","0","2","4","1","0","2","2">>, 8000>>,
     <<<<"o","p","e","n","a","i","/","g","p","t","-","5">>, 128000>>,
     <<<<"o","p","e","n","a","i","/","g","p","t","-","4",".","1">>, 32000>>,
     <<<<"o","p","e","n","a","i","/","g","p","t","-","4","o">>, 128000>>,
     <<<<"o","p","e","n","a","i","/","g","p","t","-","4","o","-","m","i","n","i">>, 16000>>,
     <<<<"o","p","e","n","a","i","/","g","p","t","-","4","-","t","u","r","b","o">>, 4000>>,
     <<<<"d","e","e","p","s","e","e","k","/","d","e","e","p","s","e","e","k","-","c","h","a","t","-","v","3","-","0","3","2","4",":","f","r","e","e">>, 160000>>,
     <<<<"d","e","e","p","s","e","e","k","/","d","e","e","p","s","e","e","k","-","r","1","-","0","5","2","8",":","f","r","e","e">>, 160000>>,
     <<<<"q","w","e","n","/","q","w","e","n","3","-","c","o","d","e","r",":","f","r","e","e">>, 40000>>,
     <<<<"d","e","e","p","s","e","e","k","/","d","e","e","p","s","e","e","k","-","r","1",":","f","r","e","e">>, 160000>>,
     <<<<"m","o","o","n","s","h","o","t","a","i","/","k","i","m","i","-","k","2",":","f","r","e","e">>, 32000>>,
     <<<<"q","w","e","n","/","q","w","e","n","3","-","2","3","5","b","-","a","2","2","b",":","f","r","e","e">>, 41000>>,
     <<<<"m","e","t","a","-","l","l","a","m","a","/","l","l","a","m","a","-","3",".","3","-","7","0","b","-","i","n","s","t","r","u","c","t",":","f","r","e","e">>, 130000>>,
     <<<<"g","o","o","g","l","e","/","g","e","m","m","a","-","3","n","-","e","4","b","-","i","t",":","f","r","e","e">>, 2000>>,
     <<<<"m","i","s","t","r","a","l","a","i","/","m","i","s","t","r","a","l","-","s","m","a","l","l","-","3",".","1","-","2","4","b","-","i","n","s","t","r","u","c","t",":","f","r","e","e">>, 95000>>,
     <<<<"o","p","e","n","a","i","/","g","p","t","-","o","s","s","-","2","0","b",":","f","r","e","e">>, 130000>>,
     <<<<"g","o","o","g","l","e","/","g","e","m","m","a","-","3","n","-","e","2","b","-","i","t",":","f","r","e","e">>, 2000>>,
     <<<<"m","e","t","a","-","l","l","a","m","a","/","l","l","a","m","a","-","3",".","2","-","3","b","-","i","n","s","t","r","u","c","t",":","f","r","e","e">>, 130000>>,
     <<<<"q","w","e","n","/","q","w","e","n","3","-","4","b",":","f","r","e","e">>, 40000>>,
     <<<<"m","i","s","t","r","a","l","a","i","/","m","i","s","t","r","a","l","-","7","b","-","i","n","s","t","r","u","c","t",":","f","r","e","e">>, 95000>>,
     <<<<"g","o","o","g","l","e","/","g","e","m","m","a","-","2","-","9","b","-","i","t",":","f","r","e","e">>, 8000>>,
     <<<<"g","o","o","g","l","e","/","g","e","m","m","a","-","3","-","2","7","b","-","i","t",":","f","r","e","e">>, 8000>> >>

\* the keys of model_limits
ListedModels == {model_limits[k][1] : k \in DOMAIN model_limits}

\* model names that are not keys of model_limits
UnlistedModels ==
  {<<"c","l","a","u","d","e","-","3","-","h","a","i","k","u","-","2","0","2","4","0","3","0","7">>,
   <<"C","l","a","u","d","e","-","S","o","n","n","e","t","-","N","e","x","t">>,
   <<"c","l","a","u","d","e","-","3","-","o","p","u","s","-","2","0","2","4","0","2","2","9">>,
   <<"g","p","t","-","4","o","-","m","i","n","i","-","2","0","2","4","-","0","7","-","1","8">>,
   <<"G","P","T","-","3",".","5","-","t","u","r","b","o">>,
   <<"d","e","e","p","s","e","e","k","-","c","o","d","e","r">>,
   <<"q","w","e","n","2","-","7","2","b">>,
   <<"l","l","a","m","a","-","3","-","8","b">>,
   <<"g","e","m","m","a","-","7","b">>,
   <<"m","i","s","t","r","a","l","-","l","a","r","g","e">>,
   <<"c","o","m","m","a","n","d","-","r">>,
   <<>>}

ModelNames == ListedModels \cup UnlistedModels

\* the agent types of the three agents, and one that has no entry in
\* scaling_factors and min_limits
AgentTypes == {"validation", "summarization", "visualization", "general"}

\* the base limit of a model: its entry of model_limits, or the fallback for
\* the pattern its lower-cased name contains
base_limit(model_name) ==
  IF model_name \in ListedModels
  THEN model_limits[CHOOSE k \in DOMAIN model_limits : model_limits[k][1] = model_name][2]
  ELSE LET model_lower == Lower(model_name)
       IN  IF Contains(model_lower, <<"h","a","i","k","u">>) THEN 8192
           ELSE IF Contains(model_lower, <<"s","o","n","n","e","t">>) THEN 8000
           ELSE IF Contains(model_lower, <<"o","p","u","s">>) THEN 8000
           ELSE IF Contains(model_lower, <<"g","p","t","-","4","o","-","m","i","n","i">>) THEN 16384
           ELSE IF Contains(model_lower, <<"g","p","t">>) THEN 4096
           ELSE IF Contains(model_lower, <<"d","e","e","p","s","e","e","k">>) \/ Contains(model_lower, <<"q","w","e","n">>) THEN 8000
           ELSE IF Contains(model_lower, <<"l","l","a","m","a">>) \/ Contains(model_lower, <<"g","e","m","m","a">>) THEN 8000
           ELSE IF Contains(model_lower, <<"m","i","s","t","r","a","l">>) THEN 8000
           ELSE 4000

\* scaling_factors.get(agent_type, 0.5), in hundredths
scaling_factors(agent_type) ==
  CASE agent_type = "validation" -> 15
    [] agent_type = "summarization" -> 75
    [] agent_type = "visualization" -> 70
    [] OTHER -> 50

\* the products base * factor that Python's float arithmetic gives just
\* below their exact value, an integer: int(41000 * 0.70) is 28699
FloatShortfall == {<<41000, 70>>}

\* int(base_limit * factor): the float product truncated.  For every base
\* limit of the code and every factor it is the exact quotient, but for the
\* products of FloatShortfall
scaled_limit(base, hundredths) ==
  (base * hundredths) \div 100 - (IF <<base, hundredths>> \in FloatShortfall THEN 1 ELSE 0)

\* a faulty table of minimum limits: every agent type is given 4000
min_limits_high(agent_type) ==
  CASE agent_type = "validation" -> 4000
    [] agent_type = "summarization" -> 4000
    [] agent_type = "visualization" -> 4000
    [] OTHER -> 4000

\* min_limits.get(agent_type, 1000)
min_limits(agent_type) ==
  CASE agent_type = "validation" -> 500
    [] agent_type = "summarization" -> 2000
    [] agent_type = "visualization" -> 2000
    [] OTHER -> 1000

\* get_model_max_tokens with its locals
get_model_max_tokens(model_name, agent_type) ==
  The({[model_name |-> model_name, agent_type |-> agent_type, base_limit |-> base,
        scaled_limit |-> scaled_limit(base, scaling_factors(agent_type)),
        final_limit |-> MaxOf({scaled_limit(base, scaling_factors(agent_type)),
                               min_limits(agent_type)})] :
         base \in {base_limit(model_name)}})

NoTokens ==
  [model_name |-> NoneStr, agent_type |-> "", base_limit |-> 0, scaled_limit |-> 0,
   final_limit |-> 0]

\* the executor threads that run process_lecture for process_text
Threads == {1, 2}

\* the seconds the clock of the server is followed for
MaxClock == 1

\* a thread that has no request
IdleThread ==
  [pc |-> "idle", request |-> NoRequest, agents |-> NoRequest, error |-> "",
   filename |-> <<>>]

\* the requests sent to the server
ServerRequests ==
  {[provider |-> <<"a","n","t","h","r","o","p","i","c">>, model |-> <<"c","l","a","u","d","e","-","3","-","5","-","h","a","i","k","u","-","2","0","2","4","1","0","2","2">>, api_key |-> <<"s","k","-","a","n","t","-","1">>],
   [provider |-> <<"a","n","t","h","r","o","p","i","c">>, model |-> <<"c","l","a","u","d","e","-","s","o","n","n","e","t","-","4","-","2","0","2","5","0","5","1","4">>, api_key |-> <<"s","k","-","a","n","t","-","2">>],
   [provider |-> <<"O","p","e","n","R","o","u","t","e","r">>, model |-> <<"o","p","e","n","a","i","/","g","p","t","-","4","o">>, api_key |-> <<"s","k","-","o","r","-","1">>],
   [provider |-> <<"c","o","h","e","r","e">>, model |-> <<"c","o","m","m","a","n","d","-","r">>, api_key |-> <<"c","o","-","1">>],
   [provider |-> <<"o","p","e","n","a","i">>, model |-> <<"g","p","t","-","4","o">>, api_key |-> <<"k","e","y">>]}

\* process_lecture up to the call of pipeline, for the request req in the
\* environment env: the error it returns ("" when it goes on) and os.environ
process_lecture_environ(req, env) ==
  LET provider_lower == Lower(req.provider)
      pattern        == validation_patterns(provider_lower)
      env1 == [env EXCEPT !["PROVIDER"] = provider_lower, !["MODEL_NAME"] = req.model]
  IN  IF req.api_key = <<>> \/ Strip(req.api_key) = <<>>
      THEN [error |-> MsgKeyRequired, environ |-> env]
      ELSE IF pattern # <<>> /\ ~StartsWith(req.api_key, pattern)
      THEN [error |-> MsgKeyFormat, environ |-> env]
      ELSE IF KeyVariable(provider_lower) = "unsupported"
      THEN [error |-> MsgUnsupported, environ |-> env1]
      ELSE [error |-> "",
            environ |-> [env1 EXCEPT ![KeyVariable(provider_lower)] = req.api_key]]

\* generate_unique_filename: f"graph_{int(time.time())}"
generate_unique_filename(now) == <<"graph_", now>>

VARIABLES
  pc,               \* where the request is
  request,          \* the arguments of process_lecture
  environ,          \* os.environ
  agents,           \* what get_llm_instance read from the environment
  validation_result,\* the answer of the validation agent
  dot_code_raw,     \* the answer of the visualization agent
  cleaning,         \* the locals of clean_dot_code(dot_code_raw)
  pipeline_return,  \* the pair pipeline returned
  compiled,         \* the call of compile_dot_to_png
  response,         \* what process_lecture returned
  test_dot,         \* the argument of test_quickchart_api's compile call
  calls,            \* the chains pipeline invoked, in order
  exception,        \* the text of the exception pipeline caught
  validated,        \* a direct call of validate_dot_syntax
  output_dir,       \* the entries of the output directory
  progress_callback,\* whether pipeline was given a progress callback
  events,           \* the callbacks, chain invocations and the cleaning, in order
  chain_inputs,     \* the variable each invoked chain was given, in order
  threads,          \* the executor threads of the server, each in process_lecture
  clock,            \* int(time.time()), counted from the start of the server
  max_tokens        \* a call of get_model_max_tokens

vars == <<pc, request, environ, agents, validation_result, dot_code_raw, cleaning,
          pipeline_return, compiled, response, test_dot, calls, exception, validated,
          output_dir, progress_callback, events, chain_inputs, threads, clock,
          max_tokens>>

Init ==
  /\ pc = "idle"
  /\ request = NoRequest
  /\ environ = [n \in EnvNames |-> NoneStr]
  /\ agents = NoRequest
  /\ validation_result = NoneStr
  /\ dot_code_raw = NoneStr
  /\ cleaning = NoLocals
  /\ pipeline_return = PipelineFailure("pending")
  /\ compiled = NotCompiled
  /\ response = NoResponse
  /\ test_dot = NoneStr
  /\ calls = <<>>
  /\ exception = NoneStr
  /\ validated = NotValidated
  /\ output_dir = OutputDir
  /\ progress_callback = FALSE
  /\ events = <<>>
  /\ chain_inputs = <<>>
  /\ threads = [t \in Threads |-> IdleThread]
  /\ clock = 0
  /\ max_tokens = NoTokens

\* process_lecture up to the call of pipeline: the key checks and os.environ
ProcessLecture(req) ==
  /\ pc = "idle"
  /\ request' = req
  /\ LET provider_lower == Lower(req.provider)
         pattern        == validation_patterns(provider_lower)
         env1 == [environ EXCEPT !["PROVIDER"] = provider_lower, !["MODEL_NAME"] = req.model]
     IN  IF req.api_key = <<>> \/ Strip(req.api_key) = <<>>
         THEN /\ response' = Failure(MsgKeyRequired)
              /\ pc' = "done"
              /\ UNCHANGED environ
         ELSE IF pattern # <<>> /\ ~StartsWith(req.api_key, pattern)
         THEN /\ response' = Failure(MsgKeyFormat)
              /\ pc' = "done"
              /\ UNCHANGED environ
         ELSE IF KeyVariable(provider_lower) = "unsupported"
         THEN /\ response' = Failure(MsgUnsupported)
              /\ pc' = "done"
              /\ environ' = env1
         ELSE /\ environ' = [env1 EXCEPT ![KeyVariable(provider_lower)] = req.api_key]
              /\ pc' = "create_agents"
              /\ UNCHANGED response
  /\ UNCHANGED <<agents, validation_result, dot_code_raw, cleaning, pipeline_return,
                 compiled, test_dot, calls, exception, validated, output_dir>>
  /\ UNCHANGED <<progress_callback, events, chain_inputs>>
  /\ UNCHANGED <<threads, clock>>
  /\ UNCHANGED <<max_tokens>>

\* `if progress_callback: progress_callback(stage, message)`: the events of
\* the statement
Announce(stage) == IF progress_callback THEN <<stage>> ELSE <<>>

\* a faulty except clause: the step that raised is run again
PipelineRaisesAndRetries(e) ==
  /\ exception' = e
  /\ pipeline_return' = PipelineFailure(pipeline_error_message(e))
  /\ pc' = pc

\* pipeline raised e at the current step: its except clause returns
PipelineRaises(e) ==
  /\ exception' = e
  /\ pipeline_return' = PipelineFailure(pipeline_error_message(e))
  /\ pc' = "returned"

\* pipeline: the three create_*_agent calls, each through get_llm_instance
CreateAgents ==
  /\ pc = "create_agents"
  /\ \/ /\ agents' = [provider |-> environ["PROVIDER"], model |-> environ["MODEL_NAME"],
                      api_key |-> environ[KeyVariable(environ["PROVIDER"])]]
        /\ pc' = "classify"
        /\ UNCHANGED <<pipeline_return, exception>>
     \/ /\ \E e \in ErrorTexts : PipelineRaises(e)
        /\ UNCHANGED agents
  /\ UNCHANGED <<request, environ, validation_result, dot_code_raw, cleaning, compiled,
                 response, test_dot, calls, validated, output_dir>>
  /\ UNCHANGED <<progress_callback, events, chain_inputs>>
  /\ UNCHANGED <<threads, clock>>
  /\ UNCHANGED <<max_tokens>>

\* a faulty step 1: the answer of the validation agent is not looked at
ClassifyWithoutReturn ==
  /\ pc = "classify"
  /\ events' = events \o Announce("validating") \o <<"validation_chain">>
  /\ calls' = Append(calls, "validation_chain")
  /\ chain_inputs' = Append(chain_inputs, "input_text")
  /\ \/ \E content \in ClassifierResponses :
          /\ validation_result' = Upper(Strip(content))
          /\ pc' = "summarize"
          /\ UNCHANGED <<pipeline_return, exception>>
     \/ /\ \E e \in ErrorTexts : PipelineRaises(e)
        /\ UNCHANGED validation_result
  /\ UNCHANGED <<request, environ, agents, dot_code_raw, cleaning, compiled, response,
                 test_dot, validated, output_dir>>
  /\ UNCHANGED <<progress_callback>>
  /\ UNCHANGED <<threads, clock>>
  /\ UNCHANGED <<max_tokens>>

\* pipeline, step 1: validation_chain.invoke and the INVALID test
Classify ==
  /\ pc = "classify"
  /\ events' = events \o Announce("validating") \o <<"validation_chain">>
  /\ calls' = Append(calls, "validation_chain")
  /\ chain_inputs' = Append(chain_inputs, "input_text")
  /\ \/ \E content \in ClassifierResponses :
          /\ validation_result' = Upper(Strip(content))
          /\ IF Contains(validation_result', <<"I","N","V","A","L","I","D">>)
             THEN /\ pipeline_return' = PipelineFailure(MsgNotEducational)
                  /\ pc' = "returned"
             ELSE /\ pc' = "summarize"
                  /\ UNCHANGED pipeline_return
          /\ UNCHANGED exception
     \/ /\ \E e \in ErrorTexts : PipelineRaises(e)
        /\ UNCHANGED validation_result
  /\ UNCHANGED <<request, environ, agents, dot_code_raw, cleaning, compiled, response,
                 test_dot, validated, output_dir>>
  /\ UNCHANGED <<progress_callback>>
  /\ UNCHANGED <<threads, clock>>
  /\ UNCHANGED <<max_tokens>>

\* a faulty step 2: the callback is called after the chain was invoked
SummarizeAnnouncingLate ==
  /\ pc = "summarize"
  /\ events' = events \o <<"summarizer_chain">> \o Announce("analyzing")
  /\ calls' = Append(calls, "summarizer_chain")
  /\ chain_inputs' = Append(chain_inputs, "input_text")
  /\ \/ /\ pc' = "describe"
        /\ UNCHANGED <<pipeline_return, exception>>
     \/ \E e \in ErrorTexts : PipelineRaises(e)
  /\ UNCHANGED <<request, environ, agents, validation_result, dot_code_raw, cleaning,
                 compiled, response, test_dot, validated, output_dir>>
  /\ UNCHANGED <<progress_callback>>
  /\ UNCHANGED <<threads, clock>>
  /\ UNCHANGED <<max_tokens>>

\* pipeline, step 2: summarizer_chain.invoke
Summarize ==
  /\ pc = "summarize"
  /\ events' = events \o Announce("analyzing") \o <<"summarizer_chain">>
  /\ calls' = Append(calls, "summarizer_chain")
  /\ chain_inputs' = Append(chain_inputs, "input_text")
  /\ \/ /\ pc' = "describe"
        /\ UNCHANGED <<pipeline_return, exception>>
     \/ \E e \in ErrorTexts : PipelineRaises(e)
  /\ UNCHANGED <<request, environ, agents, validation_result, dot_code_raw, cleaning,
                 compiled, response, test_dot, validated, output_dir>>
  /\ UNCHANGED <<progress_callback>>
  /\ UNCHANGED <<threads, clock>>
  /\ UNCHANGED <<max_tokens>>

\* pipeline, step 3: dot_chain.invoke, clean_dot_code and the two checks
Describe ==
  /\ pc = "describe"
  /\ calls' = Append(calls, "dot_chain")
  /\ chain_inputs' = Append(chain_inputs, "summary")
  /\ \/ \E raw \in RawOutputs :
          \E locals \in {clean_dot_code_locals(raw)} :
          LET dot_code == locals.cleaned
          IN  /\ dot_code_raw' = raw
              /\ cleaning' = locals
              /\ pc' = "returned"
              /\ pipeline_return' =
                   IF Strip(dot_code) = <<>> THEN PipelineFailure(MsgNoCode)
                   ELSE IF ~(Contains(Lower(dot_code), KwDigraph) \/ Contains(Lower(dot_code), KwGraph))
                   THEN PipelineFailure(MsgMalformed)
                   ELSE [first |-> SummaryText, dot_code |-> dot_code]
              /\ events' = events \o Announce("generating") \o <<"dot_chain", "clean_dot_code">>
              /\ UNCHANGED exception
     \/ /\ \E e \in ErrorTexts : PipelineRaises(e)
        /\ events' = events \o Announce("generating") \o <<"dot_chain">>
        /\ UNCHANGED <<dot_code_raw, cleaning>>
  /\ UNCHANGED <<request, environ, agents, validation_result, compiled, response, test_dot,
                 validated, output_dir>>
  /\ UNCHANGED <<progress_callback>>
  /\ UNCHANGED <<threads, clock>>
  /\ UNCHANGED <<max_tokens>>

\* the reply of process_lecture for the tuple compile_dot_to_png returned
Reply(result_path) ==
  IF TupleTruthy(result_path) THEN Success ELSE Failure(MsgCompileFailed)

\* process_lecture after pipeline returned: the digraph test, the output
\* directory and compile_dot_to_png up to its validation.
\* mkdir_ok = FALSE is output_dir.mkdir raising, caught by the except clause
Compile ==
  /\ pc = "returned"
  /\ LET dot_code == pipeline_return.dot_code
     IN  IF dot_code # NoneStr /\ dot_code # <<>> /\ Contains(dot_code, KwDigraph)
         THEN \/ /\ response' = Failure(MsgUnexpected)
                 /\ pc' = "done"
                 /\ UNCHANGED compiled
              \/ \E c \in {compile_dot_to_png_clean(dot_code)} :
                   /\ compiled' = c
                   /\ IF c.returned
                      THEN response' = Reply(c.result) /\ pc' = "done"
                      ELSE pc' = "validating" /\ UNCHANGED response
         ELSE /\ response' = Failure(MsgNoGraph)
              /\ pc' = "done"
              /\ UNCHANGED compiled
  /\ UNCHANGED <<request, environ, agents, validation_result, dot_code_raw, cleaning,
                 pipeline_return, test_dot, calls, exception, validated, output_dir>>
  /\ UNCHANGED <<progress_callback, events, chain_inputs>>
  /\ UNCHANGED <<threads, clock>>
  /\ UNCHANGED <<max_tokens>>

\* compile_dot_to_png from validate_dot_syntax on, and the reply
Validate ==
  /\ pc = "validating"
  /\ \E probe \in ProbeOutcomes, makedirs_ok \in BOOLEAN :
       \E c \in {compile_dot_to_png_validate(compiled, probe, makedirs_ok)} :
          /\ compiled' = c
          /\ response' = Reply(c.result)
  /\ pc' = "done"
  /\ UNCHANGED <<request, environ, agents, validation_result, dot_code_raw, cleaning,
                 pipeline_return, test_dot, calls, exception, validated, output_dir>>
  /\ UNCHANGED <<progress_callback, events, chain_inputs>>
  /\ UNCHANGED <<threads, clock>>
  /\ UNCHANGED <<max_tokens>>

\* test_quickchart_api: compile_dot_to_png called on a text directly
TestCompile ==
  /\ pc = "idle"
  /\ \E raw \in RawOutputs :
       \E c \in {compile_dot_to_png_clean(raw)} :
          /\ test_dot' = raw
          /\ compiled' = c
          /\ pc' = IF c.returned THEN "tested" ELSE "test_validating"
  /\ UNCHANGED <<request, environ, agents, validation_result, dot_code_raw, cleaning,
                 pipeline_return, response, calls, exception, validated, output_dir>>
  /\ UNCHANGED <<progress_callback, events, chain_inputs>>
  /\ UNCHANGED <<threads, clock>>
  /\ UNCHANGED <<max_tokens>>

\* test_quickchart_api: the rest of its compile_dot_to_png call
TestValidate ==
  /\ pc = "test_validating"
  /\ \E probe \in ProbeOutcomes, makedirs_ok \in BOOLEAN :
       compiled' = compile_dot_to_png_validate(compiled, probe, makedirs_ok)
  /\ pc' = "tested"
  /\ UNCHANGED <<request, environ, agents, validation_result, dot_code_raw, cleaning,
                 pipeline_return, response, test_dot, calls, exception, validated,
                 output_dir>>
  /\ UNCHANGED <<progress_callback, events, chain_inputs>>
  /\ UNCHANGED <<threads, clock>>
  /\ UNCHANGED <<max_tokens>>

\* validate_dot_syntax called on a text directly
ValidateDirect ==
  /\ pc = "idle"
  /\ \E dot_code \in ValidateInputs, probe \in ProbeOutcomes :
       \E v \in {validate_dot_syntax(dot_code, probe)} :
          validated' = [called |-> TRUE, dot_code |-> dot_code, probe |-> probe,
                        is_valid |-> v.is_valid, error_msg |-> v.error_msg,
                        probed |-> v.probed]
  /\ pc' = "validated"
  /\ UNCHANGED <<request, environ, agents, validation_result, dot_code_raw, cleaning,
                 pipeline_return, compiled, response, test_dot, calls, exception,
                 output_dir>>
  /\ UNCHANGED <<progress_callback, events, chain_inputs>>
  /\ UNCHANGED <<threads, clock>>
  /\ UNCHANGED <<max_tokens>>

\* the Gradio front end at the start of process_lecture_gradio:
\* cleanup_old_files() on the output directory
CleanupOldFiles ==
  /\ pc = "idle"
  /\ \E listing \in Listings(output_dir), failing \in DOMAIN output_dir \cup {""} :
       output_dir' = cleanup_old_files(output_dir, listing, failing)
  /\ pc' = "cleaned_up"
  /\ UNCHANGED <<request, environ, agents, validation_result, dot_code_raw, cleaning,
                 pipeline_return, compiled, response, test_dot, calls, exception,
                 validated>>
  /\ UNCHANGED <<progress_callback, events, chain_inputs>>
  /\ UNCHANGED <<threads, clock>>
  /\ UNCHANGED <<max_tokens>>

Next ==
  \/ \E req \in Requests : ProcessLecture(req)
  \/ CreateAgents
  \/ Classify
  \/ Summarize
  \/ Describe
  \/ Compile
  \/ Validate
  \/ TestCompile
  \/ TestValidate
  \/ ValidateDirect
  \/ CleanupOldFiles

Spec == Init /\ [][Next]_vars

\* the environment of a caller that has configured a provider
ConfiguredEnviron ==
  [n \in EnvNames |->
     IF n = "PROVIDER" THEN <<"a","n","t","h","r","o","p","i","c">>
     ELSE IF n = "MODEL_NAME" THEN <<"c","l","a","u","d","e","-","3","-","5","-","h","a","i","k","u","-","2","0","2","4","1","0","2","2">>
     ELSE IF n = "ANTHROPIC_API_KEY" THEN <<"s","k","-","a","n","t","-","1">>
     ELSE NoneStr]

\* pipeline(input_text, progress_callback) called with a callback, in a
\* configured environment
PipelineWithCallback ==
  /\ pc = "idle"
  /\ progress_callback = FALSE
  /\ progress_callback' = TRUE
  /\ environ' = ConfiguredEnviron
  /\ pc' = "create_agents"
  /\ UNCHANGED <<request, agents, validation_result, dot_code_raw, cleaning, pipeline_return,
                 compiled, response, test_dot, calls, exception, validated, output_dir,
                 events, chain_inputs>>
  /\ UNCHANGED <<threads, clock>>
  /\ UNCHANGED <<max_tokens>>

NextCallback ==
  \/ PipelineWithCallback
  \/ CreateAgents
  \/ Classify
  \/ Summarize
  \/ Describe

\* the pipeline run by a caller that supplies a progress callback
CallbackSpec == Init /\ [][NextCallback]_vars

\* the variables the server threads leave alone
request_vars ==
  <<pc, request, agents, validation_result, dot_code_raw, cleaning, pipeline_return,
    compiled, response, test_dot, calls, exception, validated, output_dir,
    progress_callback, events, chain_inputs>>

\* process_text hands req to an executor thread, which runs process_lecture
\* up to the call of pipeline
ThreadProcessLecture(t, req) ==
  /\ threads[t].pc = "idle"
  /\ \E r \in {process_lecture_environ(req, environ)} :
       /\ environ' = r.environ
       /\ threads' = [threads EXCEPT ![t] =
                        [@ EXCEPT !.request = req, !.error = r.error,
                                  !.pc = IF r.error = "" THEN "pipeline" ELSE "done"]]
  /\ UNCHANGED <<request_vars, clock>>
  /\ UNCHANGED <<max_tokens>>

\* pipeline in thread t: get_llm_instance reads os.environ for the agents;
\* the chains then succeed or fail
ThreadPipeline(t) ==
  /\ threads[t].pc = "pipeline"
  /\ IF KeyVariable(environ["PROVIDER"]) = "unsupported"
     THEN threads' = [threads EXCEPT ![t] = [@ EXCEPT !.error = MsgNoGraph, !.pc = "done"]]
     ELSE \E ok \in BOOLEAN :
            threads' = [threads EXCEPT ![t] =
                          [@ EXCEPT !.agents = [provider |-> environ["PROVIDER"],
                                                model |-> environ["MODEL_NAME"],
                                                api_key |-> environ[KeyVariable(environ["PROVIDER"])]],
                                    !.error = IF ok THEN "" ELSE MsgNoGraph,
                                    !.pc = IF ok THEN "naming" ELSE "done"]]
  /\ UNCHANGED <<request_vars, environ, clock>>
  /\ UNCHANGED <<max_tokens>>

\* process_lecture in thread t after pipeline: generate_unique_filename
ThreadFilename(t) ==
  /\ threads[t].pc = "naming"
  /\ threads' = [threads EXCEPT ![t] =
                   [@ EXCEPT !.filename = generate_unique_filename(clock), !.pc = "done"]]
  /\ UNCHANGED <<request_vars, environ, clock>>
  /\ UNCHANGED <<max_tokens>>

\* a second passes
Tick ==
  /\ clock < MaxClock
  /\ clock' = clock + 1
  /\ UNCHANGED <<request_vars, environ, threads>>
  /\ UNCHANGED <<max_tokens>>

NextServer ==
  \/ \E t \in Threads, req \in ServerRequests : ThreadProcessLecture(t, req)
  \/ \E t \in Threads : ThreadPipeline(t)
  \/ \E t \in Threads : ThreadFilename(t)
  \/ Tick

\* the REST server with its executor threads
ServerSpec == Init /\ [][NextServer]_vars

\* get_model_max_tokens called for a model and an agent type
GetModelMaxTokens ==
  /\ max_tokens = NoTokens
  /\ \E model_name \in ModelNames, agent_type \in AgentTypes :
       max_tokens' = get_model_max_tokens(model_name, agent_type)
  /\ UNCHANGED <<request_vars, environ, threads, clock>>

NextTokens == GetModelMaxTokens

\* the calls of get_model_max_tokens
TokenSpec == Init /\ [][NextTokens]_vars

(***************************************************************************)
(* Properties.  cleaning holds the locals of the pipeline's clean_dot_code *)
(* call on dot_code_raw; compiled holds the call of compile_dot_to_png.    *)
(***************************************************************************)
\* a graph declaration at position i: graph or digraph, any letter case,
\* followed by whitespace
DeclarationAt(s, i) ==
  \E kw \in {KwGraph, KwDigraph} :
     /\ LitAtCI(s, i, kw)
     /\ i + Len(kw) <= Len(s)
     /\ IsSpace(s[i + Len(kw)])

\* the positions of the graph declarations of s
Declarations(s) == {i \in 1..Len(s) : DeclarationAt(s, i)}

\* the pipeline has cleaned a raw output
Cleaned == cleaning # NoLocals

\* the texts between each "[" and the first "]" after it
BlockTexts(s) ==
  {SubSeq(s, b + 1, FirstClose(s, b) - 1) :
     b \in {x \in 1..Len(s) : s[x] = "[" /\ FirstClose(s, x) # 0}}

\* the keys of the lookup table
LightColors == {color_mapping[k][1] : k \in 1..Len(color_mapping)}

\* the canonical value the lookup table gives the key K
Canonical(K) == color_mapping[CHOOSE k \in 1..Len(color_mapping) : color_mapping[k][1] = K][2]

\* C1: the normalizer is idempotent; in particular the second cleaning, done
\* inside compile_dot_to_png on the code the pipeline has cleaned already,
\* changes nothing
CleanIsIdempotent ==
  (pc \in {"validating", "done"} /\ compiled.called)
    => compiled.cleaned_dot = pipeline_return.dot_code

\* C2: process_lecture answers success only if compile_dot_to_png produced a
\* render URL; every failure of the chain gives success = False and no
\* graph_path
FailsClosed ==
  (pc = "done" /\ (response.success \/ response.has_graph_path))
    => /\ compiled.returned
       /\ compiled.is_valid
       /\ compiled.result[2] # NoneStr

\* C3: a raw output that contains a graph declaration is cleaned to a text
\* that starts with the keyword graph or digraph
CleanedStartsWithKeyword ==
  (Cleaned /\ Declarations(dot_code_raw) # {})
    => \/ LitAtCI(cleaning.cleaned, 1, KwGraph)
       \/ LitAtCI(cleaning.cleaned, 1, KwDigraph)

\* the interior of the fenced block of s when s is prose, one untagged fenced
\* block and trailing prose; <<"no block">> otherwise
FencedInterior(s) ==
  LET fences == {p \in 1..Len(s) : LitAt(s, p, Fence)}
  IN  IF /\ Cardinality(fences) = 2
         /\ Count(s, Backtick) = 2 * Len(Fence)
         /\ MinOf(fences) > 1
         /\ ~LitAtCI(s, MinOf(fences) + Len(Fence), LangDot)
         /\ ~LitAtCI(s, MinOf(fences) + Len(Fence), LangGraphviz)
      THEN Strip(SubSeq(s, MinOf(fences) + Len(Fence), MaxOf(fences) - 1))
      ELSE <<"no block">>

\* C4: for prose, one fenced block and trailing prose, clean_dot_code returns
\* exactly the interior of the block
FenceExtraction ==
  (Cleaned /\ FencedInterior(dot_code_raw) # <<"no block">>)
    => cleaning.cleaned = FencedInterior(dot_code_raw)

\* the example of the anchoring: Sure! digraph G {A->B;}
SureExample == FixedOutputs[5]

\* C5: when the text left by the fence, backtick, prefix and suffix stages does
\* not start with a graph declaration but holds one, the anchoring keeps the
\* text from the first declaration on and drops what precedes it; when it
\* holds none, the anchoring leaves the text unchanged; the output for
\* Sure! digraph G {A->B;} starts with digraph G
KeywordAnchoring ==
  Cleaned =>
    /\ Declarations(cleaning.chatter_free) = {}
         => cleaning.anchored = cleaning.chatter_free
    /\ (Declarations(cleaning.chatter_free) # {} /\ ~DeclarationAt(cleaning.chatter_free, 1))
         => cleaning.anchored =
              From(cleaning.chatter_free, MinOf(Declarations(cleaning.chatter_free)))
    /\ dot_code_raw = SureExample
         => LitAt(cleaning.cleaned, 1, <<"d","i","g","r","a","p","h"," ","G">>)

\* C5, witness: a cleaned output whose text held two declarations after a
\* preamble, cut at the first one
AnchoredAtFirst ==
  /\ Cleaned
  /\ Cardinality(Declarations(cleaning.chatter_free)) >= 2
  /\ MinOf(Declarations(cleaning.chatter_free)) > 1
  /\ cleaning.anchored = From(cleaning.chatter_free, MinOf(Declarations(cleaning.chatter_free)))
  /\ Len(cleaning.anchored) < Len(cleaning.chatter_free)

\* a text of letters and blanks only, with at least one letter
IsProse(s) ==
  /\ \A i \in 1..Len(s) : s[i] \in Range(UpperChars) \cup Range(LowerChars) \cup {" "}
  /\ \E i \in 1..Len(s) : s[i] # " "

\* C6: for a text that is no graph declaration at all, validation of the
\* cleaned text fails with the missing-keyword reason
ProseFailsWithMissingKeyword ==
  (pc = "tested" /\ IsProse(test_dot))
    => /\ ~compiled.is_valid
       /\ compiled.error_msg = ReasonMissingKeyword

\* the attribute color=K stands at position q of the block text t
BorderColorAt(t, q, K) ==
  /\ LitAt(t, q, <<"c","o","l","o","r","=">> \o K)
  /\ \/ q = 1
     \/ \E c \in 1..(q - 1) : t[c] = "," /\ \A k \in (c + 1)..(q - 1) : IsSpace(t[k])
  /\ \/ q + 6 + Len(K) = Len(t) + 1
     \/ t[q + 6 + Len(K)] = ","

\* the block text t with color=K at q made fillcolor=<canonical value> and
\* fontcolor=black added, everything else kept
Canonicalized(t, q, K) ==
  SubSeq(t, 1, q - 1) \o FillcolorEq \o Canonical(K) \o From(t, q + 6 + Len(K))
    \o <<",", " ">> \o FontcolorEq \o <<"b","l","a","c","k">>

\* C7: in markup that uses style=filled, a node block with the unquoted border
\* colour K of the lookup table ends with fillcolor = the canonical value of K
\* and fontcolor=black, its other attributes kept in their order
PaletteCanonicalization ==
  (Cleaned /\ Contains(dot_code_raw, StyleFilled))
    => \A t \in BlockTexts(dot_code_raw) : \A q \in 1..Len(t) : \A K \in LightColors :
          BorderColorAt(t, q, K) => Canonicalized(t, q, K) \in BlockTexts(cleaning.cleaned)

\* the fontcolor the contrast table gives the block text t, whose fillcolor
\* starts at position i
TableFontcolor(t, i) ==
  IF Lower(ColorValueAt(t, i + Len(FillcolorEq)).color) \in dark_colors
  THEN <<"w","h","i","t","e">>
  ELSE <<"b","l","a","c","k">>

\* C8: every attribute block of the cleaned text that has a fillcolor has the
\* fontcolor of the contrast table: white on blue, purple, red and green,
\* black otherwise
ContrastTable ==
  Cleaned =>
    \A t \in BlockTexts(cleaning.cleaned) : \A i \in 1..Len(t) :
       (LitAt(t, i, FillcolorEq) /\ ColorValueAt(t, i + Len(FillcolorEq)).ok)
         => /\ Contains(t, FontcolorEq \o TableFontcolor(t, i))
            /\ \A j \in 1..Len(t) :
                  LitAt(t, j, FontcolorEq)
                    => LitAt(t, j + Len(FontcolorEq), TableFontcolor(t, i))

\* C9: no double-quoted key of the lookup table is left as the value of
\* fillcolor or color before a comma, a blank or the closing bracket
QuotedColorsCanonicalized ==
  Cleaned =>
    \A K \in LightColors : \A i \in 1..Len(cleaning.cleaned) :
       LitAt(cleaning.cleaned, i, <<"c","o","l","o","r","=">> \o Quoted(K))
         => /\ i + 8 + Len(K) <= Len(cleaning.cleaned)
            /\ cleaning.cleaned[i + 8 + Len(K)] \notin {",", " ", "\n", "]"}

\* the values of the label attributes of s, in the order of the text
LabelValues(s) ==
  LET lab    == <<"l","a","b","e","l","=","\"">>
      starts == {i \in 1..Len(s) : LitAt(s, i, lab)}
      value(i) == SubSeq(s, i + Len(lab),
                         MinOf({e \in (i + Len(lab))..(Len(s) + 1) :
                                  e = Len(s) + 1 \/ s[e] = "\""}) - 1)
  IN  {<<Cardinality({j \in starts : j < i}), value(i)>> : i \in starts}

\* C10: the colour passes leave every label value as it is in the input
LabelsUnchanged ==
  Cleaned => LabelValues(cleaning.cleaned) = LabelValues(dot_code_raw)

\* C11: every key of color_mapping maps to a member of light_colors and to
\* no member of dark_colors; the two sets are disjoint; no canonical value is
\* itself a key of the table; so the colour a cleaned text has in place of a
\* key of the raw output is a light colour
PaletteIsLight ==
  /\ \A k \in 1..Len(color_mapping) :
        /\ color_mapping[k][2] \in light_colors
        /\ color_mapping[k][2] \notin dark_colors
        /\ color_mapping[k][2] \notin LightColors
  /\ light_colors \cap dark_colors = {}
  /\ Cleaned
       => \A k \in 1..Len(color_mapping) :
             (/\ Contains(dot_code_raw, <<"c","o","l","o","r","=">> \o color_mapping[k][1])
              /\ Contains(cleaning.cleaned, <<"c","o","l","o","r","=">> \o color_mapping[k][2]))
               => color_mapping[k][2] \in light_colors \ dark_colors

\* C11, witness: the table has been applied to a raw output: a key that was
\* the value of color= or fillcolor= is replaced by its canonical value
PaletteApplied ==
  /\ Cleaned
  /\ \E K \in LightColors :
        /\ Contains(dot_code_raw, <<"c","o","l","o","r","=">> \o K)
        /\ ~Contains(cleaning.cleaned, <<"c","o","l","o","r","=">> \o K)
        /\ Contains(cleaning.cleaned, <<"c","o","l","o","r","=">> \o Canonical(K))
        /\ Canonical(K) \in light_colors

\* the text s, after its leading whitespace, starts with graph or digraph in
\* any letter case
KeywordFirst(s) ==
  \E i \in 1..Len(s) :
     /\ \A j \in 1..(i - 1) : IsSpace(s[j])
     /\ LitAtCI(s, i, KwGraph) \/ LitAtCI(s, i, KwDigraph)

\* s is empty or whitespace only
IsBlank(s) == \A i \in 1..Len(s) : IsSpace(s[i])

\* the number of positions of s that hold the character c
Occurrences(s, c) == Cardinality({i \in 1..Len(s) : s[i] = c})

\* C12: clean_dot_code gives the empty string for an empty or whitespace-only
\* text and runs no later stage on it; compile_dot_to_png returns on it before
\* the validation; validate_dot_syntax rejects such a text as empty, without a
\* request to the render service
EmptyInput ==
  /\ (Cleaned /\ IsBlank(dot_code_raw))
       => /\ cleaning = [chatter_free |-> <<>>, anchored |-> <<>>, cleaned |-> <<>>]
          /\ pipeline_return = PipelineFailure(MsgNoCode)
  /\ (compiled.called /\ test_dot # NoneStr /\ IsBlank(test_dot))
       => /\ compiled.cleaned_dot = <<>>
          /\ compiled.returned
          /\ ~compiled.probed
  /\ (validated.called /\ IsBlank(validated.dot_code))
       => /\ ~validated.is_valid
          /\ validated.error_msg = ReasonEmpty
          /\ ~validated.probed

\* C12, witness: validate_dot_syntax was called on a text of whitespace and
\* answered that the code is empty
WhitespaceRejected ==
  /\ validated.called
  /\ validated.dot_code = <<" ","\n","\t">>
  /\ validated.error_msg = ReasonEmpty

\* C13: on a non-empty text that starts with graph or digraph and whose
\* number of opening braces differs from its number of closing braces,
\* validate_dot_syntax fails with the unbalanced-braces reason and sends no
\* request to the render service, called directly or by compile_dot_to_png
UnbalancedBracesRejected ==
  /\ (/\ validated.called
      /\ ~IsBlank(validated.dot_code)
      /\ KeywordFirst(validated.dot_code)
      /\ Occurrences(validated.dot_code, "{") # Occurrences(validated.dot_code, "}"))
       => /\ ~validated.is_valid
          /\ validated.error_msg = ReasonUnbalanced
          /\ ~validated.probed
  /\ (/\ compiled.returned
      /\ ~IsBlank(compiled.cleaned_dot)
      /\ KeywordFirst(compiled.cleaned_dot)
      /\ Occurrences(compiled.cleaned_dot, "{") # Occurrences(compiled.cleaned_dot, "}"))
       => /\ ~compiled.is_valid
          /\ compiled.error_msg = ReasonUnbalanced
          /\ ~compiled.probed

\* C13, witness: validate_dot_syntax was called on a digraph whose closing
\* brace is missing and answered unbalanced braces
MissingBraceRejected ==
  /\ validated.called
  /\ validated.dot_code = <<"d","i","g","r","a","p","h"," ","G"," ","{"," ","A"," ","-",">"," ","B">>
  /\ validated.error_msg = ReasonUnbalanced
  /\ ~validated.probed

\* C14: on a non-empty text validate_dot_syntax gives the missing-keyword
\* reason exactly when the text, after its leading whitespace, does not start
\* with graph or digraph in some letter case
MissingKeywordExactly ==
  (validated.called /\ ~IsBlank(validated.dot_code))
    => (validated.error_msg = ReasonMissingKeyword <=> ~KeywordFirst(validated.dot_code))

\* C14, witness: a text with leading whitespace and a mixed-case keyword was
\* validated and accepted
MixedCaseAccepted ==
  /\ validated.called
  /\ validated.dot_code = <<" "," ","D","i","g","r","a","p","h"," ","G"," ","{"," ","A"," ","-",">"," ","B"," ","}","\n">>
  /\ validated.is_valid

\* the answers validate_dot_syntax can give
Reasons ==
  {ReasonEmpty, ReasonMissingKeyword, ReasonUnbalanced, ReasonProbeStatus, ReasonException,
   ReasonValid}

\* C15: validate_dot_syntax answers every text with a truth value and a
\* reason; when the probe raises or answers another status than 200 the answer
\* is False; the answer is True only for a non-empty text that starts with the
\* keyword, has balanced braces and was answered 200 by the probe
ValidateTotal ==
  validated.called
    => /\ validated.is_valid \in BOOLEAN
       /\ validated.error_msg \in Reasons
       /\ validated.probe # "200" => ~validated.is_valid
       /\ validated.is_valid
            => /\ ~IsBlank(validated.dot_code)
               /\ KeywordFirst(validated.dot_code)
               /\ Occurrences(validated.dot_code, "{") = Occurrences(validated.dot_code, "}")
               /\ validated.probed
               /\ validated.probe = "200"
               /\ validated.error_msg = ReasonValid

\* C15, witness: the probe raised on a well-formed text and validate_dot_syntax
\* answered False with the reason of its except clause
ProbeRaised ==
  /\ validated.called
  /\ validated.probe = "raises"
  /\ validated.probed
  /\ ~validated.is_valid
  /\ validated.error_msg = ReasonException

\* C16: when the answer of the validation agent contains INVALID, pipeline
\* returns the rejection message and None, no other chain is invoked, nothing
\* is compiled and process_lecture answers with a failure without graph
ClassificationRejection ==
  Contains(validation_result, <<"I","N","V","A","L","I","D">>)
    => /\ pc \in {"returned", "done"}
       /\ pipeline_return = PipelineFailure(MsgNotEducational)
       /\ calls = <<"validation_chain">>
       /\ compiled = NotCompiled
       /\ pc = "done" => (~response.success /\ ~response.has_graph_path)

\* C16, witness: a request whose content was judged invalid has been answered
RejectionDelivered ==
  /\ pc = "done"
  /\ validation_result = <<"I","N","V","A","L","I","D",":"," ","N","O","T"," ","E","D","U","C","A","T","I","O","N","A","L"," ","M","A","T","E","R","I","A","L">>
  /\ response = Failure(MsgNoGraph)

\* C17: no step of pipeline invokes a chain that was invoked before, and once
\* a call raised no further chain is invoked
NothingRetried ==
  [][/\ \A i, j \in DOMAIN calls' : calls'[i] = calls'[j] => i = j
     /\ exception # NoneStr => calls' = calls]_vars

\* C17, witness: the summarizer raised after the validation agent answered,
\* and the request was answered with two chains invoked once each
RaisedAfterTwoCalls ==
  /\ pc = "done"
  /\ exception # NoneStr
  /\ calls = <<"validation_chain", "summarizer_chain">>

\* the categories of the except clause in the order of their tests: the texts
\* looked for and the message
ErrorCategories ==
  << [needles |-> {<<"r","a","t","e"," ","l","i","m","i","t">>, <<"q","u","o","t","a">>}, message |-> MsgRateLimit],
     [needles |-> {<<"a","p","i"," ","k","e","y">>, <<"a","u","t","h","e","n","t","i","c","a","t","i","o","n">>}, message |-> MsgAuth],
     [needles |-> {<<"t","i","m","e","o","u","t">>}, message |-> MsgTimeout],
     [needles |-> {<<"m","a","x","_","t","o","k","e","n","s">>}, message |-> MsgTooLong] >>

\* the categories the exception text e falls in
CategoriesOf(e) ==
  {k \in DOMAIN ErrorCategories : \E n \in ErrorCategories[k].needles : Contains(Lower(e), n)}

\* C18: an exception raised in pipeline is caught there: pipeline returns a
\* message and None, the message being that of the first category, in the
\* order rate limit, authentication, timeout, length, whose text occurs in
\* the lower-cased exception text, and the generic message when none does;
\* process_lecture then answers with a failure
ProviderErrorsMapped ==
  exception # NoneStr
    => /\ pc \in {"returned", "done"}
       /\ pipeline_return.dot_code = NoneStr
       /\ pipeline_return.first =
            IF CategoriesOf(exception) = {} THEN MsgGeneric
            ELSE ErrorCategories[MinOf(CategoriesOf(exception))].message
       /\ compiled = NotCompiled
       /\ pc = "done" => response = Failure(MsgNoGraph)

\* C18, witness: an exception text of two categories, quota and api key, was
\* answered with the rate-limit message
FirstCategoryWins ==
  /\ exception = <<"Q","u","o","t","a"," ","e","x","c","e","e","d","e","d"," ","f","o","r"," ","A","P","I"," ","k","e","y">>
  /\ Cardinality(CategoriesOf(exception)) = 2
  /\ pipeline_return = PipelineFailure(MsgRateLimit)

\* C19: the value compile_dot_to_png returned is true in an if test exactly
\* when a valid graph was compiled to a render URL
ResultTruthIffCompiled ==
  compiled.returned
    => (TupleTruthy(compiled.result) <=> (compiled.is_valid /\ compiled.result[2] # NoneStr))

\* a regular file of the directory dir that is older than max_age_hours
Expired(dir) == {f \in DOMAIN dir : dir[f].is_file /\ dir[f].age > max_age_hours}

\* C20: once process_lecture has taken a request, no regular file older than
\* max_age_hours is left in the output directory, and every other entry the
\* directory had is still there
EvictionAtRequestStart ==
  request # NoRequest
    => /\ Expired(output_dir) = {}
       /\ DOMAIN OutputDir \ Expired(OutputDir) \subseteq DOMAIN output_dir

\* the number of positions of s where the text lit starts
OccurrencesOf(s, lit) == Cardinality({i \in 1..Len(s) : LitAt(s, i, lit)})

\* the text uses filled style: it contains style=filled, quoted or not
UsesFilled(s) ==
  \/ Contains(s, <<"s","t","y","l","e","=","f","i","l","l","e","d">>)
  \/ Contains(s, <<"s","t","y","l","e","=","\"","f","i","l","l","e","d","\"">>)

\* C23: on a text without style=filled and style="filled" fix_color_attributes
\* returns its argument; the cleaned text then has as many fillcolor= keys as
\* the text had before, and as many fontcolor= keys when it has no fillcolor=
UnfilledLeftAlone ==
  (Cleaned /\ cleaning.anchored # <<>> /\ ~UsesFilled(cleaning.anchored))
    => /\ fix_color_attributes(cleaning.anchored) = cleaning.anchored
       /\ OccurrencesOf(cleaning.cleaned, <<"f","i","l","l","c","o","l","o","r","=">>)
            = OccurrencesOf(cleaning.anchored, <<"f","i","l","l","c","o","l","o","r","=">>)
       /\ ~Contains(cleaning.anchored, <<"f","i","l","l","c","o","l","o","r","=">>)
            => OccurrencesOf(cleaning.cleaned, <<"f","o","n","t","c","o","l","o","r","=">>)
                 = OccurrencesOf(cleaning.anchored, <<"f","o","n","t","c","o","l","o","r","=">>)

\* C23, witness: a graph without filled style whose node has a light colour
\* was cleaned, and the colour key of the node is still color
UnfilledLightColor ==
  /\ Cleaned
  /\ ~UsesFilled(cleaning.anchored)
  /\ Contains(cleaning.anchored, <<"c","o","l","o","r","=","l","i","g","h","t">>)
  /\ ~Contains(cleaning.cleaned, <<"f","i","l","l","c","o","l","o","r","=">>)
  /\ ~Contains(cleaning.cleaned, <<"f","o","n","t","c","o","l","o","r","=">>)

\* the last position before p that holds no whitespace, 0 when there is none
PrevNonSpace(s, p) == MaxOf({0} \cup {q \in 1..(p - 1) : ~IsSpace(s[q])})

\* the first position of the word that ends at q
WordStart(s, q) == MinOf({i \in 1..q : \A j \in i..q : IsWordChar(s[j])})

\* the opening brackets of the attribute lists of the edge statements of s:
\* a bracket after the identifier that follows -> or --
EdgeBrackets(s) ==
  {b \in 1..Len(s) :
     /\ s[b] = "["
     /\ \E q \in {PrevNonSpace(s, b)} :
          /\ q > 0
          /\ IsWordChar(s[q])
          /\ \E a \in {PrevNonSpace(s, WordStart(s, q))} :
               /\ a > 1
               /\ s[a] \in {">", "-"}
               /\ s[a - 1] = "-"}

\* the attribute lists of the edge statements of s
EdgeBlocks(s) ==
  {SubSeq(s, b + 1, FirstClose(s, b) - 1) : b \in {x \in EdgeBrackets(s) : FirstClose(s, x) # 0}}

\* C24: the attribute list of an edge statement is not given a fillcolor key
\* and not given a fontcolor attribute by clean_dot_code
EdgeBlocksKept ==
  (/\ Cleaned
   /\ \A blk \in EdgeBlocks(cleaning.anchored) :
        /\ ~Contains(blk, <<"f","i","l","l","c","o","l","o","r","=">>)
        /\ ~Contains(blk, <<"f","o","n","t","c","o","l","o","r","=">>))
    => \A blk \in EdgeBlocks(cleaning.cleaned) :
          /\ ~Contains(blk, <<"f","i","l","l","c","o","l","o","r","=">>)
          /\ ~Contains(blk, <<"f","o","n","t","c","o","l","o","r","=">>)

\* the opening brackets of s that follow an identifier, plain or quoted
IdentifierBrackets(s) ==
  {b \in 1..Len(s) :
     /\ s[b] = "["
     /\ \E q \in {PrevNonSpace(s, b)} : q > 0 /\ (IsWordChar(s[q]) \/ s[q] = "\"")}

\* the number of fontcolor attributes of the attribute list blk: fontcolor=
\* at the start of a name and outside a quoted value
FontcolorAttributes(blk) ==
  Cardinality({i \in 1..Len(blk) :
                 /\ LitAt(blk, i, <<"f","o","n","t","c","o","l","o","r","=">>)
                 /\ (i = 1 \/ ~IsWordChar(blk[i - 1]))
                 /\ Cardinality({j \in 1..(i - 1) : blk[j] = "\""}) % 2 = 0})

\* the attribute lists of s that follow an identifier
IdentifierBlocks(s) ==
  {SubSeq(s, b + 1, FirstClose(s, b) - 1) :
     b \in {x \in IdentifierBrackets(s) : FirstClose(s, x) # 0}}

\* C25: when the text uses filled style and none of its attribute lists has
\* more than one fontcolor attribute, every attribute list of the cleaned text
\* that follows an identifier has exactly one fontcolor attribute
OneFontcolorPerBlock ==
  (/\ Cleaned
   /\ UsesFilled(cleaning.anchored)
   /\ \A blk \in IdentifierBlocks(cleaning.anchored) : FontcolorAttributes(blk) <= 1)
    => \A blk \in IdentifierBlocks(cleaning.cleaned) : FontcolorAttributes(blk) = 1

\* the character a token of a percent-encoded text stands for
PercentDecode(tok) ==
  CASE tok = "%20" -> " "   [] tok = "%0A" -> "\n" [] tok = "%09" -> "\t"
    [] tok = "%0D" -> "\r" [] tok = "%21" -> "!"  [] tok = "%22" -> "\""
    [] tok = "%23" -> "#"   [] tok = "%27" -> "'"  [] tok = "%2C" -> ","
    [] tok = "%3A" -> ":"   [] tok = "%3B" -> ";"  [] tok = "%3D" -> "="
    [] tok = "%3E" -> ">"   [] tok = "%5B" -> "["  [] tok = "%5C" -> "\\"
    [] tok = "%5D" -> "]"   [] tok = "%60" -> Backtick
    [] tok = "%7B" -> "{"   [] tok = "%7D" -> "}"
    [] OTHER -> tok

\* a token that may stand in a query parameter as it is
Unreserved(tok) == IsWordChar(tok) \/ tok \in {".", "-", "~", "/"}

\* C26: compile_dot_to_png returns a render URL only for a cleaned text that
\* is non-empty, starts with graph or digraph, has balanced braces and was
\* answered 200 by the probe; the URL is the base URL followed by the
\* percent-encoding of that text: every token is an unreserved character or an
\* escape, and decoding the tokens gives the cleaned text back
RenderUrlOnlyForValidated ==
  (compiled.returned /\ compiled.result[2] # NoneStr)
    => /\ ~IsBlank(compiled.cleaned_dot)
       /\ KeywordFirst(compiled.cleaned_dot)
       /\ Occurrences(compiled.cleaned_dot, "{") = Occurrences(compiled.cleaned_dot, "}")
       /\ compiled.probed
       /\ compiled.is_valid
       /\ compiled.error_msg = ReasonValid
       /\ compiled.result[2][1] = "https://quickchart.io/graphviz?graph="
       /\ \E encoded \in {From(compiled.result[2], 2)} :
            /\ \A i \in 1..Len(encoded) :
                  Unreserved(encoded[i]) \/ PercentDecode(encoded[i]) # encoded[i]
            /\ [i \in 1..Len(encoded) |-> PercentDecode(encoded[i])] = compiled.cleaned_dot

\* C26, witness: a text with characters that need an escape was compiled to
\* a render URL
RenderUrlReturned ==
  /\ compiled.returned
  /\ compiled.result[2] # NoneStr
  /\ Contains(compiled.cleaned_dot, <<"-",">">>)
  /\ Contains(compiled.result[2], <<"-","%3E">>)

\* C28: a request rejected for its key or its provider is answered with a
\* failure, invokes no chain and leaves os.environ as it was
RejectionLeavesEnviron ==
  (pc = "done" /\ response.error \in {MsgKeyRequired, MsgKeyFormat, MsgUnsupported})
    => /\ ~response.success
       /\ calls = <<>>
       /\ environ = [n \in EnvNames |-> NoneStr]

\* C29: validate_dot_syntax reports the first failing test in the order
\* empty, keyword, braces, probe: a text without the keyword is reported as
\* such whatever its braces, the brace reason is given only to a text with
\* the keyword, and the probe is sent only to a non-empty text with the
\* keyword and balanced braces
ChecksInOrder ==
  validated.called
    => /\ IsBlank(validated.dot_code) <=> validated.error_msg = ReasonEmpty
       /\ (~IsBlank(validated.dot_code) /\ ~KeywordFirst(validated.dot_code))
            => validated.error_msg = ReasonMissingKeyword
       /\ validated.error_msg = ReasonUnbalanced => KeywordFirst(validated.dot_code)
       /\ validated.probed
            <=> /\ ~IsBlank(validated.dot_code)
                /\ KeywordFirst(validated.dot_code)
                /\ Occurrences(validated.dot_code, "{") = Occurrences(validated.dot_code, "}")
       /\ validated.error_msg \in {ReasonValid, ReasonProbeStatus, ReasonException}
            <=> validated.probed

\* C29, witness: a text without the keyword and with an unclosed brace was
\* reported as lacking the keyword, without a probe
KeywordBeforeBraces ==
  /\ validated.called
  /\ validated.dot_code = <<"h","e","l","l","o"," ","{">>
  /\ validated.error_msg = ReasonMissingKeyword
  /\ ~validated.probed

\* the events of a complete pipeline run with or without a callback
FullRun ==
  IF progress_callback
  THEN <<"validating", "validation_chain", "analyzing", "summarizer_chain",
         "generating", "dot_chain", "clean_dot_code">>
  ELSE <<"validation_chain", "summarizer_chain", "dot_chain", "clean_dot_code">>

\* the chains of a complete run and the variable each is given
FullCalls == <<"validation_chain", "summarizer_chain", "dot_chain">>

FullInputs == <<"input_text", "input_text", "summary">>

\* the variable pipeline binds the answer of a chain to
OutputOf(chain) ==
  CASE chain = "validation_chain" -> "validation_result"
    [] chain = "summarizer_chain" -> "summary"
    [] chain = "dot_chain" -> "dot_code_raw"

\* C22, as claimed: every chain after the first is given the answer of the
\* chain invoked before it
PreviousOutputConsumed ==
  \A k \in 2..Len(chain_inputs) : chain_inputs[k] = OutputOf(calls[k - 1])

\* C22, amended: the events of a pipeline run are a prefix of validating,
\* validation chain, analyzing, summarizer chain, generating, visualization
\* chain, cleaning (the callbacks only when one is supplied), so that every
\* callback is issued once and before its chain; the validation chain and the
\* summarizer are given the input text, the visualization chain the summary
\* and clean_dot_code the answer of the visualization chain; after a
\* rejection or an exception the last event is the chain that rejected or
\* raised
StageOrder ==
  /\ Len(events) <= Len(FullRun)
  /\ events = SubSeq(FullRun, 1, Len(events))
  /\ Len(calls) <= 3
  /\ calls = SubSeq(FullCalls, 1, Len(calls))
  /\ chain_inputs = SubSeq(FullInputs, 1, Len(calls))
  /\ Len(events) = Len(calls) * (IF progress_callback THEN 2 ELSE 1) + (IF Cleaned THEN 1 ELSE 0)
  /\ Cleaned => (Len(calls) = 3 /\ exception = NoneStr)
  /\ (Cleaned /\ dot_code_raw \in Range(FixedOutputs))
       => cleaning.cleaned = clean_dot_code(dot_code_raw)
  /\ Contains(validation_result, <<"I","N","V","A","L","I","D">>) => Len(calls) = 1
  /\ (pc = "returned" /\ ~Cleaned)
       => (events = <<>> \/ events[Len(events)] \in Range(FullCalls))

\* C22, witness: a run with a callback went through all stages
AllStagesAnnounced ==
  /\ progress_callback
  /\ pc = "returned"
  /\ Cleaned
  /\ events = <<"validating", "validation_chain", "analyzing", "summarizer_chain",
                "generating", "dot_chain", "clean_dot_code">>

\* C21: two requests never get the same filename from
\* generate_unique_filename
FilenamesUnique ==
  \A t, u \in Threads :
     (t # u /\ threads[t].filename # <<>> /\ threads[u].filename # <<>>)
       => threads[t].filename # threads[u].filename

\* C27: the agents of a request are created with the provider, the model and
\* the API key of that request
RequestIsolation ==
  \A t \in Threads :
     threads[t].agents # NoRequest
       => /\ threads[t].agents.provider = Lower(threads[t].request.provider)
          /\ threads[t].agents.model = threads[t].request.model
          /\ threads[t].agents.api_key = threads[t].request.api_key

\* C30: the limit get_model_max_tokens returns is at least 500 for the
\* validation agent, 2000 for the summarization and the visualization agent
\* and 1000 for another agent type, and it is at most the base limit of the
\* model
MaxTokensWithinBounds ==
  max_tokens # NoTokens
    => /\ max_tokens.final_limit >=
            (IF max_tokens.agent_type = "validation" THEN 500
             ELSE IF max_tokens.agent_type \in {"summarization", "visualization"} THEN 2000
             ELSE 1000)
       /\ max_tokens.final_limit <= max_tokens.base_limit
       /\ max_tokens.base_limit \in {mdl[2] : mdl \in Range(model_limits)}
                                      \cup {8192, 8000, 16384, 4096, 4000}

\* C30, witness: for a model with the smallest base limit, 2000, the minimum
\* of the summarization agent was applied, and the limit is the base limit
MinimumApplied ==
  /\ max_tokens.agent_type = "summarization"
  /\ max_tokens.base_limit = 2000
  /\ max_tokens.scaled_limit < 2000
  /\ max_tokens.final_limit = 2000

====
